---- MODULE Spec2Model ----
(***************************************************************************)
(* Model of the monitoring-and-signal pipeline of the trading bot:         *)
(* core/monitor_base.py, core/multi_monitor.py, strategies/utbot_strategy, *)
(* services/notification_service.py, utils.py and main.py.                 *)
(*                                                                         *)
(* The specifications share the operators translated from the code:        *)
(*   Spec / FairSpec  the whole pipeline (start-up, initial sync, the      *)
(*                    scheduler loop, the worker pool and its tasks);      *)
(*   SpecTrig         seconds_until_trigger applied to sampled clocks;     *)
(*   SpecSM           consecutive evaluations of one target by             *)
(*                    detect_signal_change and the state update;           *)
(*   SpecFetch        fetch_closed_candles applied to sampled candle       *)
(*                    source behaviours;                                   *)
(*   SpecWS           the WebSocket servers: queue, consumer, fan-out;     *)
(*   SpecMerge        concurrent callers of merge_csv_with_lock on a path; *)
(*   SpecMergeFn      merge_csv_with_lock applied to sampled series;       *)
(*   SpecRMW          worker threads evaluating one target key at once;    *)
(*   SpecUT           the trailing stop and the signal columns of          *)
(*                    compute_ut_bot_v5;                                   *)
(*   SpecSR           SmartMTFSR: clustering, filtering, sorting of zones; *)
(*   SpecPsy          SmartMTFSR: the candidate levels of one bar over the *)
(*                    configured timeframes;                               *)
(*   SpecCfg          ConfigLoader on the numeric monitoring options;      *)
(*   SpecTask         one target task from merge to notification;          *)
(*   SpecSched        the triggers of the monitor loop over time;          *)
(*   SpecTerm         one batch with the retry loops of its tasks taken    *)
(*                    pass by pass.                                        *)
(***************************************************************************)
EXTENDS Integers, Sequences, FiniteSets, TLC

VARIABLES
    \* ---- configuration and construction (fixed after Init)
    config,          \* MonitoringConfig + notification/websocket switches
    exchanges,       \* BaseMonitor.exchanges: ids of the connected exchanges
    \* ---- BaseMonitor / MultiThreadMonitor
    signal_states,   \* BaseMonitor.signal_states: dict target_key -> "buy"|"sell"
    running,         \* BaseMonitor.running
    mainPc,          \* position of TradingSystem.run / start_services
    loopPc,          \* position of the _monitor_loop task
    \* ---- one call of _process_targets_batch
    batchPc,         \* "idle" | "collecting" | "draining"
    batch_no,        \* number of batches dispatched so far
    batch,           \* the targets handed to the running / last batch
    pc,              \* per target: position of its task
    fetchRes,        \* per target: df_closed of its task (none before the fetch)
    task,            \* per target: locals of process_target_with_strategies
    failed,          \* targets whose task entered the except handler
    stats,           \* ProcessingStatsTracker of the running batch
    result,          \* BatchResult returned by the last completed batch
    \* ---- WebSocketServer
    ws_running,      \* WebSocketServer.running
    message_queue,   \* WebSocketServer.message_queue
    ws_consumer,     \* WebSocketServer._queue_processor_task
    ws_server,       \* WebSocketServer.server
    \* ---- SpecTrig
    t_now, t_minutes, t_second, t_result,
    \* ---- SpecSM
    sm_states, sm_log,
    \* ---- SpecFetch
    f_target, f_outcomes, f_result,
    \* ---- SpecWS: the WebSocket server object
    wsb,
    \* ---- SpecMerge: the path, its lock file and the callers
    mrg,
    \* ---- SpecMergeFn: stored series, new batch, result
    mfn,
    \* ---- SpecRMW: the state of one key and the threads evaluating it
    rmw,
    \* ---- SpecUT: the indicator's columns
    ut,
    \* ---- SpecSR: candidate levels, zones and the reported list
    srz,
    \* ---- SpecCfg: the raw monitoring options and the loaded configuration
    cl,
    \* ---- SpecTask: one task, its CSV, its signal state and the queue
    tk,
    \* ---- SpecSched: the clock of the scheduler loop and its triggers
    sch

cfgVars  == <<config, exchanges>>
monVars  == <<signal_states, running, mainPc, loopPc>>
poolVars == <<batchPc, batch_no, batch, pc, fetchRes, task,
              failed, stats, result>>
wsVars   == <<ws_running, message_queue, ws_consumer, ws_server>>
wsCtl    == <<ws_running, ws_consumer, ws_server>>
trigVars == <<t_now, t_minutes, t_second, t_result>>
smVars   == <<sm_states, sm_log>>
fetchVars == <<f_target, f_outcomes, f_result>>
moreVars == <<srz, cl, tk, sch>>
auxVars  == <<wsb, mrg, mfn, rmw, ut, moreVars>>
vars     == <<cfgVars, monVars, poolVars, wsVars, trigVars, smVars, fetchVars,
              auxVars>>
\* what the pipeline's actions leave alone
otherVars == <<trigVars, smVars, fetchVars, auxVars>>

-----------------------------------------------------------------------------
(* Bounds of the model *)

\* number of configured monitoring targets
NTargets == 2
\* batches dispatched in one run (initial sync + scheduler cycles)
MaxBatches == 2
\* largest configured monitoring.max_workers
MaxWorkersCfg == 2
\* largest configured monitoring.max_retries
MaxRetriesCfg == 3
\* clock resolution: ticks per second (the code has microseconds)
TicksPerSecond == 2
\* evaluations of one target in SpecSM
MaxEvals == 4
\* largest trigger_minutes in SpecTrig
MaxPeriod == 2
\* subscriber connections in SpecWS
NClients == 2
\* messages handed to send_message_sync in SpecWS
MaxMsgs == 2
\* concurrent callers of merge_csv_with_lock on one path in SpecMerge
NCallers == 2
\* tasks of one batch whose targets share a target key in SpecRMW
NSameKey == 2
\* triggers of the monitor loop followed in SpecSched
MaxTriggers == 3
\* longest configured list of timeframes in SpecPsy
MaxTfs == 2
\* candidate levels given to _cluster_levels in SpecSR
MaxCands == 3
\* candidate levels lie 0..MaxLevel grid steps above the current price in SpecSR
MaxLevel == 2
\* largest top_n in SpecSR
MaxTopN == 2
\* rows of the frame given to compute_ut_bot_v5 in SpecUT
MaxRows == 3
\* prices 1..MaxPrice of src and thema in SpecUT
MaxPrice == 3
\* timestamps 1..MaxTs of the candles in SpecMergeFn
MaxTs == 3
\* close values 1..MaxVal of the candles in SpecMergeFn
MaxVal == 2

(* Program constants *)

\* min(target_count, config.max_workers, 20)
HardCap == 20
\* datetime: seconds per minute
SecondsPerMinute == 60
\* merge_csv_with_lock(df_new, path, max_retries=3)
MergeMaxRetries == 3

-----------------------------------------------------------------------------
(* Values *)

\* Python None as a dict value or a state; an absent record is <<>>
None == "None"
NoData == <<>>

Min(a, b) == IF a <= b THEN a ELSE b

Targets == 1..NTargets
ExchangeIds == {"okx", "binance"}
SymbolNames == <<"BTC", "ETH", "SOL", "XRP", "ADA", "DOT">>

\* MonitorTarget of index t (exchange, symbol, timeframe), enabled per config
MonitorTarget(t, en) ==
    [exchange  |-> IF t % 2 = 1 THEN "okx" ELSE "binance",
     symbol    |-> SymbolNames[t],
     timeframe |-> "5m",
     enabled   |-> en]

\* BaseMonitor._get_target_key: f"{exchange}_{symbol}_{timeframe}"
_get_target_key(target) == <<target.exchange, target.symbol, target.timeframe>>

\* dict.get(key): None when the key is absent
DictGet(d, k) == IF k \in DOMAIN d THEN d[k] ELSE None

\* d[k] = v on a dict
DictSet(d, k, v) == [x \in DOMAIN d \cup {k} |-> IF x = k THEN v ELSE d[x]]

EmptyDict == [x \in {} |-> None]

-----------------------------------------------------------------------------
(* seconds_until_trigger *)

TicksPerMinute == SecondsPerMinute * TicksPerSecond

\* datetime.replace(second=s, microsecond=0) raises ValueError unless 0 <= s <= 59
ReplaceRaises(s) == s \notin 0..(SecondsPerMinute - 1)

\* datetime.replace(second=s, microsecond=0): the minute of now, second s
ReplaceSecond(now, s) ==
    (now \div TicksPerMinute) * TicksPerMinute + s * TicksPerSecond

TargetNotInFutureStrict(target, now) == target < now

\* "if target <= now"
TargetNotInFuture(target, now) == target <= now

\* BaseMonitor.seconds_until_trigger / TimeUtils.seconds_until_trigger:
\* [raised, value], value in ticks
seconds_until_trigger(now, minutes, trigger_second) ==
    IF ReplaceRaises(trigger_second) THEN [raised |-> TRUE, value |-> 0]
    ELSE LET target  == ReplaceSecond(now, trigger_second)
             target2 == IF TargetNotInFuture(target, now)
                        THEN target + minutes * TicksPerMinute
                        ELSE target
         IN  [raised |-> FALSE, value |-> target2 - now]

-----------------------------------------------------------------------------
(* UTBotStrategy.detect_signal_change *)

Closes == {100}

\* the latest row of df_signals: the flags compute_ut_bot_v5 can produce
\* (buy needs src > stop, sell needs src < stop: never both)
Bars == {b \in [empty : {FALSE}, buy : BOOLEAN, sell : BOOLEAN, close : Closes] :
            ~(b.buy /\ b.sell)}

\* a frame with no rows (df_signals.empty)
EmptyFrame == [empty |-> TRUE, buy |-> FALSE, sell |-> FALSE, close |-> 0]

Frames == Bars \cup {EmptyFrame}

\* outcome of the S/R enrichment of a fired signal
SROutcomes == {"disabled", "enhanced", "failed"}

\* signal_data built by detect_signal_change
SignalData(target, latest, signal_type, sr) ==
    [exchange    |-> target.exchange,
     symbol      |-> target.symbol,
     timeframe   |-> target.timeframe,
     price       |-> latest.close,
     target_key  |-> _get_target_key(target),
     strategy    |-> "UTBot",
     signal_type |-> signal_type,
     sr_analysis |-> sr]

BuyFiresAnyState(latest, last_state) == latest.buy

BuyFiresFromFlat(latest, last_state) == latest.buy /\ last_state = None

\* "if latest["buy"] and last_state != "buy""
BuyFires(latest, last_state) == latest.buy /\ last_state # "buy"

\* "elif latest["sell"] and last_state != "sell""
SellFires(latest, last_state) == latest.sell /\ last_state # "sell"

\* returns <<new_state, signal_data>>; signal_data is NoData or <<record>>
detect_signal_change(df_signals, last_state, target, sr) ==
    IF df_signals.empty THEN <<last_state, NoData>>
    ELSE IF BuyFires(df_signals, last_state)
         THEN <<"buy", <<SignalData(target, df_signals, "BUY", sr)>> >>
    ELSE IF SellFires(df_signals, last_state)
         THEN <<"sell", <<SignalData(target, df_signals, "SELL", sr)>> >>
    ELSE <<last_state, NoData>>

\* a state update that writes the new state under every stored key
StoreUnderEveryKey(states, target_key, last_state, new_state) ==
    IF new_state # last_state
    THEN [x \in DOMAIN states \cup {target_key} |-> new_state]
    ELSE states

\* "if new_state != last_state: self.signal_states[target_key] = new_state"
StoreNewState(states, target_key, last_state, new_state) ==
    IF new_state # last_state THEN DictSet(states, target_key, new_state)
    ELSE states

-----------------------------------------------------------------------------
(* NotificationService and WebSocketServer.send_message_sync *)

\* hasattr(DataFrameUtils, "create_websocket_message"): the class defines only
\* create_ohlcv_dataframe and ensure_directory_exists
DataFrameUtilsHasCreateWebsocketMessage == FALSE

\* MessageFormatter.create_websocket_message (defaults: source="CryptoMonitor")
create_websocket_message(level, message, signal_data) ==
    [type      |-> "notification",
     level     |-> level,
     message   |-> message,
     timestamp |-> "isoformat",
     data      |-> signal_data,
     source    |-> "CryptoMonitor",
     thread    |-> "thread"]

\* WebSocketServer.send_message_sync: the queue after the call
send_message_sync(queue, wsrun, message) ==
    IF ~wsrun THEN queue ELSE Append(queue, message)

\* NotificationService.notify: [raised, queue]
notify(cfg, wsrun, queue, message, level, signal_data) ==
    IF ~cfg.notification_enabled THEN [raised |-> FALSE, queue |-> queue]
    ELSE IF cfg.websocket_enabled
         THEN IF DataFrameUtilsHasCreateWebsocketMessage
              THEN [raised |-> FALSE,
                    queue  |-> send_message_sync(queue, wsrun,
                                 create_websocket_message(level, message, signal_data))]
              ELSE [raised |-> TRUE, queue |-> queue]    \* AttributeError
    ELSE [raised |-> FALSE, queue |-> queue]

\* the circle emoji in front of a signal message
Icon(signal_type) == IF signal_type = "BUY" THEN "(green)" ELSE "(red)"

\* str.upper() on the exchange ids
Upper(exchange) == IF exchange = "okx" THEN "OKX" ELSE "BINANCE"

\* f"{price:,.4f}" for the whole prices below 1000 of the model
FormatPrice(price) == ToString(price) \o ".0000"

\* NotificationService._format_signal_message: five lines, the last one
\* datetime.now().strftime("%H:%M:%S")
_format_signal_message(signal_type, exchange, symbol, timeframe, price) ==
    Icon(signal_type) \o " " \o signal_type \o "\n"
    \o symbol \o " (" \o timeframe \o ")\n"
    \o FormatPrice(price) \o "\n"
    \o Upper(exchange) \o "\n"
    \o "HH:MM:SS"

\* NotificationService.notify_signal
notify_signal(cfg, wsrun, queue, sd) ==
    notify(cfg, wsrun, queue,
           _format_signal_message(sd.signal_type, sd.exchange, sd.symbol,
                                  sd.timeframe, sd.price),
           "WARNING",
           [exchange    |-> sd.exchange,
            symbol      |-> sd.symbol,
            timeframe   |-> sd.timeframe,
            price       |-> sd.price,
            timestamp   |-> "YYYY-MM-DD HH:MM:SS UTC",
            target_key  |-> sd.target_key,
            signal_type |-> sd.signal_type])

\* NotificationService.notify_error(str(e), target_info)
notify_error(cfg, wsrun, queue, target) ==
    notify(cfg, wsrun, queue,
           <<"error", target.exchange, target.symbol, target.timeframe>>,
           "ERROR", EmptyDict)

\* notify_info / notify_warning
notify_plain(cfg, wsrun, queue, level) ==
    notify(cfg, wsrun, queue, <<"text">>, level, EmptyDict)


-----------------------------------------------------------------------------
(* Configuration, construction *)

TriggerSeconds == {30, 75}

\* the enabled flags of the configured targets: all set, or the first cleared
EnabledSets == {Targets, Targets \ {1}}

\* values ConfigLoader._parse_config lets through (validate_positive_integer);
\* retries ranges over the configured monitoring.max_retries, max_workers is
\* the smallest and the largest pool size
ConfigsWith(retries) ==
    [notification_enabled : BOOLEAN,
     websocket_enabled    : BOOLEAN,
     max_workers          : {1, MaxWorkersCfg},
     max_retries          : retries,
     retry_delay          : {10},
     trigger_second       : TriggerSeconds,
     trigger_minutes      : {1},
     targets              : {[t \in Targets |-> MonitorTarget(t, t \in en)] :
                                en \in EnabledSets}]

Configs == ConfigsWith({MaxRetriesCfg})

\* BaseMonitor._init_exchanges: enabled exchanges whose construction succeeded
ConnectedSets == {ExchangeIds, {"okx"}}

\* MultiThreadMonitor.__init__: len([t for t in config.targets if t.enabled])
target_count == Cardinality({t \in Targets : config.targets[t].enabled})

max_workers_uncapped == Min(target_count, HardCap)

\* MultiThreadMonitor.__init__: min(target_count, config.max_workers, 20)
max_workers == Min(Min(target_count, config.max_workers), HardCap)

\* every target whose enabled flag is set, connected exchange or not
enabled_flag_targets == {t \in Targets : config.targets[t].enabled}

\* BaseMonitor.get_enabled_targets
get_enabled_targets ==
    {t \in Targets : config.targets[t].enabled
                     /\ config.targets[t].exchange \in exchanges}

-----------------------------------------------------------------------------
(* ProcessingStatsTracker *)

\* ProcessingStatsTracker.reset
NewStats == [success_count |-> 0, error_count |-> 0, errors |-> <<>>]

\* ProcessingStatsTracker.add_success
add_success(st) == [st EXCEPT !.success_count = @ + 1]

add_error_unlisted(st, target_info) == [st EXCEPT !.error_count = @ + 1]

\* ProcessingStatsTracker.add_error
add_error(st, target_info) ==
    [st EXCEPT !.error_count = @ + 1,
               !.errors = Append(@, [target |-> target_info])]

\* ProcessingStatsTracker.finish_batch
finish_batch(st) ==
    [success_count |-> st.success_count, error_count |-> st.error_count,
     errors |-> st.errors, valid |-> TRUE]

NoResult == [success_count |-> 0, error_count |-> 0, errors |-> <<>>,
             valid |-> FALSE]

-----------------------------------------------------------------------------
(* The pipeline: initial state *)

NoTask == [bar |-> EmptyFrame, last_state |-> None, new_state |-> None,
           signal_data |-> NoData]

InitPool ==
    /\ batchPc = "idle"
    /\ batch_no = 0
    /\ batch = {}
    /\ pc = [t \in Targets |-> "idle"]
    /\ fetchRes = [t \in Targets |-> "none"]
    /\ task = [t \in Targets |-> NoTask]
    /\ failed = {}
    /\ stats = NewStats
    /\ result = NoResult

\* after TradingSystem.start_services has built the services and the monitor
InitMon ==
    /\ config \in Configs
    /\ exchanges \in ConnectedSets
    /\ signal_states = EmptyDict
    /\ running = FALSE
    /\ mainPc = "sync"
    /\ loopPc = "none"
    /\ ws_running = config.websocket_enabled
    /\ message_queue = <<>>
    /\ ws_consumer = (IF config.websocket_enabled THEN "running" ELSE "none")
    /\ ws_server = (IF config.websocket_enabled THEN "open" ELSE "none")
    /\ InitPool

InitTrigIdle ==
    /\ t_now = 0 /\ t_minutes = 1 /\ t_second = 0
    /\ t_result = [raised |-> FALSE, value |-> 0, done |-> FALSE]

InitSMIdle ==
    /\ sm_states = EmptyDict
    /\ sm_log = <<>>

NoFetchResult == [raised |-> FALSE, kind |-> "none", calls |-> 0, sleeps |-> 0,
                  slept |-> 0, done |-> FALSE]

InitFetchIdle ==
    /\ f_target = 1
    /\ f_outcomes = <<>>
    /\ f_result = NoFetchResult

\* the components that are checked on their own, at rest
\* WebSocketServer.__init__ / DualPortWebSocketServer.__init__; beside the
\* object's fields: put and accepted (messages handed in, and those queued),
\* open (connections not closed), the fan-out in progress (cur, todo, size0,
\* disc, stayed, got), its outcome (missed, done, logged) and access (who
\* touched what)
WsbNew(kind) ==
    [kind |-> kind, running |-> FALSE, consumer |-> "none", consumers |-> 0,
     server |-> "none", queue |-> <<>>, clients |-> {},
     put |-> 0, accepted |-> {}, open |-> {},
     cur |-> 0, todo |-> {}, size0 |-> 0, disc |-> {}, stayed |-> {}, got |-> {},
     missed |-> {}, done |-> {}, logged |-> {}, access |-> {},
     taken |-> 0, last |-> [c \in 1..NClients |-> 0]]

InitWsbIdle == wsb = WsbNew("single")
Callers == 1..NCallers

\* one path before any call: no lock file; file is the set of batches the CSV
\* holds (0: what was stored before); per caller its position, the attempt of
\* its for loop, the df_old it read, how its call ended and whether an
\* exception is passing through its finally clause; created holds the callers
\* whose open(lock_file, 'w') has created the lock file
MrgNew ==
    [lock |-> FALSE, file |-> {0},
     pc      |-> [c \in Callers |-> "idle"],
     attempt |-> [c \in Callers |-> 0],
     df_old  |-> [c \in Callers |-> {}],
     ret     |-> [c \in Callers |-> "none"],
     exc     |-> [c \in Callers |-> FALSE],
     created |-> {}]

InitMrgIdle == mrg = MrgNew

\* a CSV path that does not exist (os.path.exists(path) is false)
NoFile == [exists |-> FALSE, lines |-> <<>>]

\* one call site before any call: the CSV at path, the batch df_new, what the
\* call returned, and the CSV as it was before the first and after the first
\* call
MfnNew(file, df_new) ==
    [pc |-> "new", file |-> file, df_new |-> df_new, ret |-> <<>>,
     stored0 |-> file, after1 |-> NoFile]

InitMfnIdle == mfn = [MfnNew(NoFile, <<>>) EXCEPT !.pc = "idle"]

SameKeyTasks == 1..NSameKey

\* tasks of one batch on one target key: the signal_states dict, the latest
\* row of df_signals they all computed, and per task its position, the
\* last_state it read and the signal_data it passed to notify_signal
RmwNew(states, bar) ==
    [states |-> states, bar |-> bar,
     pc         |-> [w \in SameKeyTasks |-> "idle"],
     last_state |-> [w \in SameKeyTasks |-> None],
     event      |-> [w \in SameKeyTasks |-> NoData]]

InitRmwIdle == rmw = RmwNew(EmptyDict, EmptyFrame)

\* a float: a number or np.nan
Num(n) == [nan |-> FALSE, x |-> n]
NaN == [nan |-> TRUE, x |-> 0]

\* the output columns before the function has run
NoOut == [stop |-> <<>>, buy |-> <<>>, sell |-> <<>>]

\* one call of compute_ut_bot_v5 before it runs: the rows of src and thema
\* gathered so far, the number of leading rows whose ATR is nan, the flags
\* allow_buy and allow_sell, and the output
UtNew(warmup) ==
    [rows |-> <<>>, warmup |-> warmup, allow_buy |-> TRUE, allow_sell |-> TRUE,
     pc |-> "rows", out |-> NoOut]

InitUtIdle == ut = [UtNew(0) EXCEPT !.pc = "idle"]

\* the components of the later specifications, not in use
NotInUse == [pc |-> "idle"]
InitSrzIdle == srz = NotInUse
InitClIdle == cl = NotInUse
InitTkIdle == tk = NotInUse
InitSchIdle == sch = NotInUse
InitMoreIdle == InitSrzIdle /\ InitClIdle /\ InitTkIdle /\ InitSchIdle

\* every component outside the pipeline, SpecTrig, SpecSM and SpecFetch at rest
InitAuxIdle ==
    InitWsbIdle /\ InitMrgIdle /\ InitMfnIdle /\ InitRmwIdle /\ InitUtIdle /\ InitMoreIdle

Init == InitMon /\ InitTrigIdle /\ InitSMIdle /\ InitFetchIdle /\ InitAuxIdle


-----------------------------------------------------------------------------
(* BaseMonitor.fetch_closed_candles *)

\* what one pass of the retry loop meets: fetch_ohlcv returns rows that
\* create_ohlcv_dataframe accepts, fetch_ohlcv raises, or the rows are malformed
\* and create_ohlcv_dataframe raises (both calls are inside the try)
FetchOutcomes == {"ok", "fetch_raises", "frame_raises"}

\* what the successive passes would meet
OutcomeSeqs == [1..MaxRetriesCfg -> FetchOutcomes]

HasRetryLeftAlways(attempt, max_retries) == attempt < max_retries

\* "if attempt < max_retries - 1" (attempt counts from 0)
HasRetryLeft(attempt, max_retries) == attempt < max_retries - 1

\* "for attempt in range(max_retries)": calls and sleeps count the fetch_ohlcv
\* and time.sleep calls made so far
RECURSIVE FetchLoop(_, _, _, _, _, _)
FetchLoop(attempt, max_retries, retry_delay, outcomes, calls, sleeps) ==
    IF attempt >= max_retries
    THEN \* the range is exhausted: the function ends without a return (None)
         [raised |-> FALSE, kind |-> "fell_through", calls |-> calls,
          sleeps |-> sleeps, slept |-> sleeps * retry_delay]
    ELSE IF outcomes[attempt + 1] = "ok"
    THEN [raised |-> FALSE, kind |-> "ok", calls |-> calls + 1,
          sleeps |-> sleeps, slept |-> sleeps * retry_delay]
    ELSE IF HasRetryLeft(attempt, max_retries)
    THEN FetchLoop(attempt + 1, max_retries, retry_delay, outcomes,
                   calls + 1, sleeps + 1)
    ELSE [raised |-> TRUE, kind |-> "terminal", calls |-> calls + 1,
          sleeps |-> sleeps, slept |-> sleeps * retry_delay]

\* a fetch that reports its failure in the returned value instead of raising
fetch_without_raise(target, exch, cfg, outcomes) ==
    IF target.exchange \notin exch
    THEN [raised |-> FALSE, kind |-> "unconnected", calls |-> 0, sleeps |-> 0,
          slept |-> 0]
    ELSE [FetchLoop(0, cfg.max_retries, cfg.retry_delay, outcomes, 0, 0)
            EXCEPT !.raised = FALSE]

\* fetch_closed_candles(target) with the monitor's exchanges and config
fetch_closed_candles(target, exch, cfg, outcomes) ==
    IF target.exchange \notin exch
    THEN [raised |-> TRUE, kind |-> "unconnected", calls |-> 0, sleeps |-> 0,
          slept |-> 0]
    ELSE FetchLoop(0, cfg.max_retries, cfg.retry_delay, outcomes, 0, 0)

-----------------------------------------------------------------------------
(* BaseMonitor.process_target_with_strategies, run by a worker thread of the *)
(* batch's ThreadPoolExecutor                                                *)

Target(t) == config.targets[t]

\* tasks a worker thread is executing
RunningTasks == {t \in Targets : pc[t] \in {"fetch", "process", "update"}}

InFlight(t) == pc[t] \in {"queued", "fetch", "process", "update"}

\* "except Exception as e: ... self.notification.notify_error(str(e), target_info)":
\* the task ends, raising when notify_error itself raises
Handler(t, queue) ==
    LET r == notify_error(config, ws_running, queue, Target(t)) IN
    /\ pc' = [pc EXCEPT ![t] = IF r.raised THEN "raised" ELSE "returned"]
    /\ failed' = failed \cup {t}
    /\ message_queue' = r.queue
    /\ task' = [task EXCEPT ![t] = NoTask]

\* a free worker thread takes the oldest queued task
StartTask(t) ==
    /\ batchPc # "idle"
    /\ pc[t] = "queued"
    /\ \A u \in Targets : u < t => pc[u] # "queued"
    /\ Cardinality(RunningTasks) < max_workers
    /\ pc' = [pc EXCEPT ![t] = "fetch"]
    /\ UNCHANGED <<otherVars, cfgVars, monVars, wsVars, batchPc, batch_no, batch,
                   fetchRes, task, failed, stats, result>>

\* the ways fetch_closed_candles(target) can end, over what the candle source does
FetchResults(target) ==
    {fetch_closed_candles(target, exchanges, config, outcomes) :
        outcomes \in OutcomeSeqs}

\* "df_closed = self.fetch_closed_candles(target)" (line 94); fetchRes is df_closed
Fetch(t) ==
    /\ pc[t] = "fetch"
    /\ \E r \in FetchResults(Target(t)) :
         IF r.raised
         THEN /\ Handler(t, message_queue)
              /\ UNCHANGED fetchRes
         ELSE /\ pc' = [pc EXCEPT ![t] = "process"]
              /\ fetchRes' = [fetchRes EXCEPT ![t] = r.kind]
              /\ UNCHANGED <<failed, message_queue, task>>
    /\ UNCHANGED <<otherVars, cfgVars, monVars, wsCtl, batchPc, batch_no, batch,
                   stats, result>>

\* only these fields of signal_data are read after detect_signal_change
\* (the arguments of notify_signal, lines 124-131)
UsedFields(signal_data) ==
    IF signal_data = NoData THEN NoData
    ELSE << [f \in {"exchange", "symbol", "timeframe", "price", "signal_type",
                    "target_key"} |-> signal_data[1][f]] >>

\* detect_signal_change as far as the task uses its result
Detected(df_signals, last_state, target, sr) ==
    LET d == detect_signal_change(df_signals, last_state, target, sr) IN
    <<d[1], UsedFields(d[2])>>

\* merge_into_csv, tail, calculate_signals, to_csv, signal_states.get and
\* detect_signal_change (lines 95-116); any of the first four may raise
Process(t) ==
    /\ pc[t] = "process"
    /\ fetchRes' = [fetchRes EXCEPT ![t] = "none"]
    /\ \/ /\ Handler(t, message_queue)
       \/ /\ fetchRes[t] = "ok"
          /\ \E df_signals \in Frames :
               LET target_key == _get_target_key(Target(t))
                   last_state == DictGet(signal_states, target_key)
               IN  \E d \in {Detected(df_signals, last_state, Target(t), sr) :
                                 sr \in SROutcomes} :
                     task' = [task EXCEPT ![t] =
                                [bar |-> df_signals, last_state |-> last_state,
                                 new_state |-> d[1], signal_data |-> d[2]]]
          /\ pc' = [pc EXCEPT ![t] = "update"]
          /\ UNCHANGED <<failed, message_queue>>
    /\ UNCHANGED <<otherVars, cfgVars, monVars, wsCtl, batchPc, batch_no, batch,
                   stats, result>>

\* the state update and the notification (lines 119-131)
UpdateNotify(t) ==
    /\ pc[t] = "update"
    /\ signal_states' = StoreNewState(signal_states, _get_target_key(Target(t)),
                                      task[t].last_state, task[t].new_state)
    /\ IF task[t].signal_data # NoData
       THEN LET r == notify_signal(config, ws_running, message_queue,
                                   task[t].signal_data[1]) IN
            IF r.raised
            THEN Handler(t, r.queue)
            ELSE /\ pc' = [pc EXCEPT ![t] = "returned"]
                 /\ message_queue' = r.queue
                 /\ task' = [task EXCEPT ![t] = NoTask]
                 /\ UNCHANGED failed
       ELSE /\ pc' = [pc EXCEPT ![t] = "returned"]
            /\ task' = [task EXCEPT ![t] = NoTask]
            /\ UNCHANGED <<failed, message_queue>>
    /\ UNCHANGED <<otherVars, cfgVars, running, mainPc, loopPc, wsCtl, batchPc,
                   batch_no, batch, fetchRes, stats, result>>

-----------------------------------------------------------------------------
(* MultiThreadMonitor._process_targets_batch *)

\* the future run_in_executor returns for target t: a key of future_to_target
ExecutorFuture(t) == <<"Future", t>>

\* future_to_target[future] = target
future_to_target == [f \in {ExecutorFuture(t) : t \in batch} |-> f[2]]

\* the i-th object "for completed_future in asyncio.as_completed(futures)" yields:
\* a coroutine that waits for the next future to finish, not one of the futures
AsCompletedItem(i) == <<"coroutine", i>>

UnknownTarget == <<"unknown_target">>

\* "target = future_to_target.get(completed_future, None)" and the f-string
ErrorTargetInfo(completed_future) ==
    IF completed_future \in DOMAIN future_to_target
    THEN _get_target_key(Target(future_to_target[completed_future]))
    ELSE UnknownTarget

ExecutorJoinedNoWait == TRUE

\* ThreadPoolExecutor.__exit__ -> shutdown(wait=True): every submitted task ran
ExecutorJoined == \A t \in Targets : ~InFlight(t)

\* the "for ... in asyncio.as_completed(futures)" loop has awaited every future
AsCompletedExhausted == \A t \in batch : pc[t] = "collected"

\* stats_tracker created, the pool built, one task submitted per target
Dispatch(targets) ==
    /\ batch_no < MaxBatches
    /\ batchPc = "idle"
    /\ batch_no' = batch_no + 1
    /\ batchPc' = "collecting"
    /\ batch' = targets
    /\ pc' = [t \in Targets |-> IF t \in targets THEN "queued" ELSE "idle"]
    /\ stats' = NewStats
    /\ failed' = {}
    /\ result' = NoResult
    /\ UNCHANGED <<fetchRes, task>>

\* "await completed_future": the next finished task's outcome is recorded
Collect(t) ==
    /\ batchPc = "collecting"
    /\ pc[t] \in {"returned", "raised"}
    /\ LET n == Cardinality({u \in batch : pc[u] = "collected"}) + 1 IN
       stats' = IF pc[t] = "returned" THEN add_success(stats)
                ELSE add_error(stats, ErrorTargetInfo(AsCompletedItem(n)))
    /\ pc' = [pc EXCEPT ![t] = "collected"]
    /\ UNCHANGED <<otherVars, cfgVars, monVars, wsVars, batchPc, batch_no, batch,
                   fetchRes, task, failed, result>>

\* the with-block is left and finish_batch() returned
BatchReturns ==
    /\ batchPc = "collecting"
    /\ AsCompletedExhausted
    /\ ExecutorJoined
    /\ batchPc' = "idle"
    /\ result' = finish_batch(stats)
    /\ pc' = [t \in Targets |-> "idle"]
    /\ UNCHANGED <<batch_no, batch, fetchRes, task, failed, stats>>

\* CancelledError was thrown into "await completed_future": the with-block is
\* left by the exception once shutdown(wait=True) has joined the workers
BatchAborts ==
    /\ batchPc = "draining"
    /\ ExecutorJoined
    /\ batchPc' = "idle"
    /\ pc' = [t \in Targets |-> "idle"]
    /\ UNCHANGED <<batch_no, batch, fetchRes, task, failed, stats, result>>

-----------------------------------------------------------------------------
(* MultiThreadMonitor._monitor_loop, start, stop, sync_data_once; main.py *)

\* datetime.utcnow() as sampled by the loop, in ticks
NowSamples == {5 * TicksPerSecond, 45 * TicksPerSecond}

\* "while self.running: try: sleep_sec = self.seconds_until_trigger() ...":
\* from the top of the loop to its next await
LoopIterate ==
    IF ~running THEN loopPc' = "exited"
    ELSE \E now \in NowSamples :
           LET sleep_sec == seconds_until_trigger(now, config.trigger_minutes,
                                                  config.trigger_second)
           IN  loopPc' = IF sleep_sec.raised THEN "cooldown" ELSE "sleeping"

\* TradingSystem._initial_data_sync -> sync_data_once
SyncDataOnce ==
    /\ mainPc = "sync"
    /\ IF get_enabled_targets = {}
       THEN /\ mainPc' = "start"
            /\ UNCHANGED poolVars
       ELSE /\ Dispatch(get_enabled_targets)
            /\ mainPc' = "sync_batch"
    /\ UNCHANGED <<otherVars, cfgVars, signal_states, running, loopPc, wsVars>>

\* the initial batch returns; sync_data_once notifies the outcome (an exception
\* of the notification is caught by _initial_data_sync)
SyncBatchReturns ==
    /\ mainPc = "sync_batch"
    /\ BatchReturns
    /\ message_queue' =
         notify_plain(config, ws_running, message_queue,
                      IF stats.error_count > 0 THEN "WARNING" ELSE "INFO").queue
    /\ mainPc' = "start"
    /\ UNCHANGED <<otherVars, cfgVars, signal_states, running, loopPc, wsCtl>>

\* MultiThreadMonitor.start; an exception of its first notification leaves
\* start_services and TradingSystem.run goes to stop_services
MonitorStart ==
    /\ mainPc = "start"
    /\ LET r == notify_plain(config, ws_running, message_queue,
                             IF get_enabled_targets = {} THEN "WARNING" ELSE "INFO")
       IN  /\ message_queue' = r.queue
           /\ IF r.raised
              THEN /\ mainPc' = "stopping"
                   /\ UNCHANGED <<running, loopPc>>
              ELSE IF get_enabled_targets = {}
              THEN /\ mainPc' = "serving"
                   /\ UNCHANGED <<running, loopPc>>
              ELSE /\ running' = TRUE
                   /\ loopPc' = "top"
                   /\ mainPc' = "serving"
    /\ UNCHANGED <<otherVars, cfgVars, signal_states, wsCtl, poolVars>>

\* the loop task runs from the top of the while loop
LoopTop ==
    /\ loopPc = "top"
    /\ LoopIterate
    /\ UNCHANGED <<otherVars, cfgVars, signal_states, running, mainPc, wsVars, poolVars>>

\* "await asyncio.sleep(sleep_sec)" is over: the batch is dispatched
SleepDone ==
    /\ loopPc = "sleeping"
    /\ Dispatch(get_enabled_targets)
    /\ loopPc' = "inbatch"
    /\ UNCHANGED <<otherVars, cfgVars, signal_states, running, mainPc, wsVars>>

\* the batch returns to the loop, which logs the result and iterates
LoopBatchReturns ==
    /\ loopPc = "inbatch"
    /\ BatchReturns
    /\ loopPc' = "top"
    /\ UNCHANGED <<otherVars, cfgVars, signal_states, running, mainPc, wsVars>>

\* "except Exception: ... await asyncio.sleep(5)" is over: the loop iterates
CooldownDone ==
    /\ loopPc = "cooldown"
    /\ loopPc' = "top"
    /\ UNCHANGED <<otherVars, cfgVars, signal_states, running, mainPc, wsVars, poolVars>>

\* the run is interrupted: TradingSystem.run reaches stop_services, whose
\* monitor.stop() clears running and cancels the loop task
Stop ==
    /\ \/ /\ mainPc = "sync_batch"
          /\ batchPc' = "draining"
          /\ UNCHANGED <<running, loopPc>>
       \/ /\ mainPc = "serving"
          /\ running' = FALSE
          /\ IF loopPc = "inbatch"
             THEN batchPc' = "draining" /\ UNCHANGED loopPc
             ELSE /\ loopPc' = IF loopPc = "none" THEN "none" ELSE "cancelled"
                  /\ UNCHANGED batchPc
    /\ mainPc' = "stopping"
    /\ UNCHANGED <<otherVars, cfgVars, signal_states, wsVars, batch_no, batch, pc,
                   fetchRes, task, failed, stats, result>>

\* the cancelled batch has joined its workers; CancelledError leaves the loop
Drained ==
    /\ BatchAborts
    /\ loopPc' = IF loopPc = "inbatch" THEN "cancelled" ELSE loopPc
    /\ UNCHANGED <<otherVars, cfgVars, signal_states, running, mainPc, wsVars>>

\* a stop that cancels the loop task and returns without awaiting it
MonitorStopReturnsAtOnce == TRUE

\* "await self.monitor_task": the loop task has ended, and it ends only when
\* the with-block of its batch has been left
MonitorStopReturns == batchPc = "idle"

\* stop_services: "await self.monitor.stop()" returns
StopFinish ==
    /\ mainPc = "stopping"
    /\ MonitorStopReturns
    /\ running' = FALSE
    /\ mainPc' = IF config.websocket_enabled THEN "ws_stop" ELSE "stopped"
    /\ UNCHANGED <<otherVars, cfgVars, signal_states, loopPc, wsVars, poolVars>>

\* WebSocketServer.stop: "self.running = False", the queue processor task is
\* cancelled and awaited
WSConsumerStopped ==
    /\ mainPc = "ws_stop"
    /\ ws_running' = FALSE
    /\ ws_consumer' = "cancelled"
    /\ mainPc' = "ws_close"
    /\ UNCHANGED <<otherVars, cfgVars, signal_states, running, loopPc, message_queue,
                   ws_server, poolVars>>

\* WebSocketServer.stop: "self.server.close(); await self.server.wait_closed()"
WSServerClosed ==
    /\ mainPc = "ws_close"
    /\ ws_server' = "closed"
    /\ mainPc' = "stopped"
    /\ UNCHANGED <<otherVars, cfgVars, signal_states, running, loopPc, ws_running,
                   message_queue, ws_consumer, poolVars>>

Next ==
    \/ SyncDataOnce
    \/ SyncBatchReturns
    \/ MonitorStart
    \/ LoopTop
    \/ SleepDone
    \/ LoopBatchReturns
    \/ CooldownDone
    \/ Stop
    \/ Drained
    \/ StopFinish
    \/ WSConsumerStopped
    \/ WSServerClosed
    \/ \E t \in Targets : StartTask(t)
    \/ \E t \in Targets : Fetch(t)
    \/ \E t \in Targets : Process(t)
    \/ \E t \in Targets : UpdateNotify(t)
    \/ \E t \in Targets : Collect(t)

Spec == Init /\ [][Next]_vars


-----------------------------------------------------------------------------
(* SpecTrig: seconds_until_trigger on sampled clocks and settings *)

\* the pipeline at rest, for the specifications that do not run it
IdleConfig ==
    [notification_enabled |-> TRUE, websocket_enabled |-> FALSE,
     max_workers |-> 1, max_retries |-> 1, retry_delay |-> 10,
     trigger_second |-> 30, trigger_minutes |-> 1,
     targets |-> [t \in Targets |-> MonitorTarget(t, TRUE)]]

InitMonIdle ==
    /\ config = IdleConfig
    /\ exchanges = ExchangeIds
    /\ signal_states = EmptyDict
    /\ running = FALSE
    /\ mainPc = "sync"
    /\ loopPc = "none"
    /\ ws_running = FALSE
    /\ message_queue = <<>>
    /\ ws_consumer = "none"
    /\ ws_server = "none"
    /\ InitPool

pipelineVars == <<cfgVars, monVars, poolVars, wsVars>>

\* everything but the components of the later specifications at rest
InitBaseIdle ==
    /\ InitMonIdle /\ InitTrigIdle /\ InitSMIdle /\ InitFetchIdle
    /\ InitWsbIdle /\ InitMrgIdle /\ InitMfnIdle /\ InitRmwIdle /\ InitUtIdle
baseVars == <<pipelineVars, trigVars, smVars, fetchVars, wsb, mrg, mfn, rmw, ut>>

\* seconds of a minute the trigger is sampled at, and one that is none
TrigSeconds == {0, 30, 59, 75}

\* the clock runs over two minutes from 12:00:00, in ticks
InitTrig ==
    /\ t_now \in 0..(2 * TicksPerMinute - 1)
    /\ t_minutes \in 1..MaxPeriod
    /\ t_second \in TrigSeconds
    /\ t_result = [raised |-> FALSE, value |-> 0, done |-> FALSE]
    /\ InitMonIdle
    /\ InitSMIdle
    /\ InitFetchIdle
    /\ InitAuxIdle

\* TimeUtils.seconds_until_trigger(current_time, minutes, trigger_second)
TrigCompute ==
    /\ ~t_result.done
    /\ LET r == seconds_until_trigger(t_now, t_minutes, t_second) IN
       t_result' = [raised |-> r.raised, value |-> r.value, done |-> TRUE]
    /\ UNCHANGED <<t_now, t_minutes, t_second, pipelineVars, smVars, fetchVars,
                   auxVars>>

\* time passes before the next call
TrigTick ==
    /\ t_result.done
    /\ t_now < 2 * TicksPerMinute - 1
    /\ t_now' = t_now + 1
    /\ t_result' = [raised |-> FALSE, value |-> 0, done |-> FALSE]
    /\ UNCHANGED <<t_minutes, t_second, pipelineVars, smVars, fetchVars, auxVars>>

NextTrig == TrigCompute \/ TrigTick

SpecTrig == InitTrig /\ [][NextTrig]_vars

-----------------------------------------------------------------------------
(* SpecSM: consecutive evaluations of one target *)

SMTarget == MonitorTarget(1, TRUE)

InitSM ==
    /\ InitSMIdle
    /\ InitMonIdle
    /\ InitTrigIdle
    /\ InitFetchIdle
    /\ InitAuxIdle

\* one evaluation: signal_states.get, detect_signal_change, the state update and
\* "if signal_data:" (process_target_with_strategies, lines 111-131)
SMEvaluate ==
    /\ Len(sm_log) < MaxEvals
    /\ \E df_signals \in Frames, sr \in SROutcomes :
         LET target_key == _get_target_key(SMTarget)
             last_state == DictGet(sm_states, target_key)
             d == detect_signal_change(df_signals, last_state, SMTarget, sr)
             states2 == StoreNewState(sm_states, target_key, last_state, d[1])
         IN  /\ sm_states' = states2
             /\ sm_log' = Append(sm_log,
                            [bar    |-> df_signals,
                             before |-> last_state,
                             after  |-> DictGet(states2, target_key),
                             event  |-> d[2]])
    /\ UNCHANGED <<pipelineVars, trigVars, fetchVars, auxVars>>

NextSM == SMEvaluate

SpecSM == InitSM /\ [][NextSM]_vars

\* the event loop runs every ready coroutine and the operating system every
\* worker thread; nothing obliges the operator to stop the service
FairSpec ==
    /\ Spec
    /\ WF_vars(SyncDataOnce)
    /\ WF_vars(SyncBatchReturns)
    /\ WF_vars(MonitorStart)
    /\ WF_vars(LoopTop)
    /\ WF_vars(SleepDone)
    /\ WF_vars(LoopBatchReturns)
    /\ WF_vars(CooldownDone)
    /\ WF_vars(Drained)
    /\ WF_vars(StopFinish)
    /\ WF_vars(WSConsumerStopped)
    /\ WF_vars(WSServerClosed)
    /\ \A t \in Targets : /\ WF_vars(StartTask(t))
                          /\ WF_vars(Fetch(t))
                          /\ WF_vars(Process(t))
                          /\ WF_vars(UpdateNotify(t))
                          /\ WF_vars(Collect(t))

-----------------------------------------------------------------------------
(* SpecFetch: fetch_closed_candles on sampled candle source behaviours *)

RetryDelays == {1, 10}

InitFetch ==
    /\ config \in {[IdleConfig EXCEPT !.max_retries = r, !.retry_delay = d] :
                      r \in 1..MaxRetriesCfg, d \in RetryDelays}
    /\ exchanges \in ConnectedSets
    /\ signal_states = EmptyDict
    /\ running = FALSE
    /\ mainPc = "sync"
    /\ loopPc = "none"
    /\ ws_running = FALSE
    /\ message_queue = <<>>
    /\ ws_consumer = "none"
    /\ ws_server = "none"
    /\ InitPool
    /\ InitTrigIdle
    /\ InitSMIdle
    /\ InitAuxIdle
    /\ f_target \in Targets
    /\ f_outcomes \in OutcomeSeqs
    /\ f_result = NoFetchResult

\* one call of fetch_closed_candles(target)
FetchCall ==
    /\ ~f_result.done
    /\ LET r == fetch_closed_candles(MonitorTarget(f_target, TRUE), exchanges,
                                     config, f_outcomes)
       IN  f_result' = [raised |-> r.raised, kind |-> r.kind, calls |-> r.calls,
                        sleeps |-> r.sleeps, slept |-> r.slept, done |-> TRUE]
    /\ UNCHANGED <<f_target, f_outcomes, pipelineVars, trigVars, smVars, auxVars>>

\* the next cycle calls it again; the candle source behaves as it will
FetchAgain ==
    /\ f_result.done
    /\ f_outcomes' \in OutcomeSeqs
    /\ f_result' = NoFetchResult
    /\ UNCHANGED <<f_target, pipelineVars, trigVars, smVars, auxVars>>

NextFetch == FetchCall \/ FetchAgain

SpecFetch == InitFetch /\ [][NextFetch]_vars

-----------------------------------------------------------------------------
(* SpecWS: WebSocketServer and DualPortWebSocketServer, from the queue to the *)
(* subscribers                                                               *)

WsKinds == {"single", "dual"}
Clients == 1..NClients

\* who calls NotificationService.notify: the worker threads of a batch
\* (process_target_with_strategies) and coroutines of the event loop
\* (MultiThreadMonitor.start, sync_data_once)
Threads == {"worker", "loop"}

SyncSendAccessDirect(thread) == {<<thread, "clients">>, <<thread, "send">>}

\* what send_message_sync touches in the thread that calls it
SyncSendAccess(thread) == {<<thread, "queue.put">>}

\* DualPortWebSocketServer.send_signal_sync / send_message_sync
send_signal_sync(queue, message) == Append(queue, message)

notWsb == <<pipelineVars, trigVars, smVars, fetchVars, mrg, mfn, rmw, ut, moreVars>>

InitWS ==
    /\ wsb \in {WsbNew(k) : k \in WsKinds}
    /\ InitMonIdle
    /\ InitTrigIdle
    /\ InitSMIdle
    /\ InitFetchIdle
    /\ InitMrgIdle /\ InitMfnIdle /\ InitRmwIdle /\ InitUtIdle /\ InitMoreIdle

\* start_server / start: running, the queue processor task, the listening server
WSStart ==
    /\ wsb.server = "none"
    /\ wsb' = [wsb EXCEPT !.running = TRUE, !.consumer = "poll",
                          !.consumers = @ + 1, !.server = "open"]
    /\ UNCHANGED notWsb

\* a caller of NotificationService.notify hands a message to send_message_sync
WSPut(thread) ==
    /\ wsb.put < MaxMsgs
    /\ LET m  == wsb.put + 1
           q2 == IF wsb.kind = "single"
                 THEN send_message_sync(wsb.queue, wsb.running, m)
                 ELSE send_signal_sync(wsb.queue, m)
       IN  wsb' = [wsb EXCEPT !.put = m, !.queue = q2,
                     !.accepted = IF q2 # wsb.queue THEN @ \cup {m} ELSE @,
                     !.access = @ \cup SyncSendAccess(thread)]
    /\ UNCHANGED notWsb

\* handle_client / handle_signal_connection starts: register
WSConnect(c) ==
    /\ wsb.server = "open"
    /\ c \notin wsb.clients /\ c \notin wsb.open
    /\ wsb' = [wsb EXCEPT !.clients = @ \cup {c}, !.open = @ \cup {c},
                          !.access = @ \cup {<<"loop", "clients">>}]
    /\ UNCHANGED notWsb

\* the peer goes away: the connection is closed, its handler has yet to run
WSConnLost(c) ==
    /\ c \in wsb.open
    /\ wsb' = [wsb EXCEPT !.open = @ \ {c}, !.stayed = @ \ {c}, !.last[c] = 0]
    /\ UNCHANGED notWsb

\* the handler of a closed connection reaches its finally: unregister
WSUnregister(c) ==
    /\ c \in wsb.clients /\ c \notin wsb.open
    /\ wsb' = [wsb EXCEPT !.clients = @ \ {c},
                          !.access = @ \cup {<<"loop", "clients">>}]
    /\ UNCHANGED notWsb

\* a queue that hands out its newest message
get_newest(queue) ==
    [item |-> queue[Len(queue)], queue |-> SubSeq(queue, 1, Len(queue) - 1)]

\* message_queue.get_nowait() / signal_queue.get_nowait() on a queue that is
\* not empty: the oldest message, and the queue without it
get_nowait(queue) == [item |-> Head(queue), queue |-> Tail(queue)]

\* _process_message_queue / _process_signal_queue: get_nowait returned a message
\* and the fan-out starts (broadcast_message: the copy of clients and the sends
\* to those not closed; broadcast_to_signal_clients: the iterator over the set)
ConsumerPoll ==
    /\ wsb.consumer = "poll"
    /\ wsb.running
    /\ wsb.queue # <<>>
    /\ LET got   == get_nowait(wsb.queue)
           m     == got.item
           tasks == IF wsb.kind = "single" THEN wsb.clients \cap wsb.open
                    ELSE wsb.clients
           acc   == wsb.access \cup {<<"loop", "queue.get">>, <<"loop", "clients">>}
       IN  IF tasks = {}
           THEN wsb' = [wsb EXCEPT !.queue = got.queue, !.done = @ \cup {m},
                                   !.taken = m,
                                   !.missed = {}, !.access = acc]
           ELSE wsb' = [wsb EXCEPT !.queue = got.queue, !.consumer = "fanout",
                                   !.taken = m,
                                   !.cur = m, !.todo = tasks,
                                   !.size0 = Cardinality(wsb.clients),
                                   !.disc = {}, !.got = {},
                                   !.stayed = wsb.clients \cap wsb.open,
                                   !.missed = {}, !.access = acc]
    /\ UNCHANGED notWsb

\* the set iterator of broadcast_to_signal_clients raises RuntimeError at its
\* next step when the set's size is not the one it started with; its first
\* step is taken as the loop starts, before any await
SetChangedSize ==
    /\ wsb.kind = "dual"
    /\ Cardinality(wsb.todo) < wsb.size0
    /\ Cardinality(wsb.clients) # wsb.size0

\* clients the fan-out has still to send to
Unsent == IF wsb.kind = "single" THEN wsb.todo ELSE wsb.todo \cap wsb.clients

\* one send of the fan-out: delivered, ConnectionClosed, or another exception
FanSend(c) ==
    /\ wsb.consumer = "fanout"
    /\ ~SetChangedSize
    /\ c \in Unsent
    /\ \E outcome \in (IF c \in wsb.open THEN {"sent", "error"} ELSE {"closed"}) :
         wsb' = [wsb EXCEPT
                   !.todo = @ \ {c},
                   !.got = IF outcome = "sent" THEN @ \cup {c} ELSE @,
                   !.last[c] = IF outcome = "sent" THEN wsb.cur ELSE @,
                   !.stayed = IF outcome = "sent" THEN @ ELSE @ \ {c},
                   !.clients = IF wsb.kind = "single" /\ outcome = "closed"
                               THEN @ \ {c} ELSE @,
                   !.disc = IF wsb.kind = "dual" /\ outcome # "sent"
                            THEN @ \cup {c} ELSE @,
                   !.access = @ \cup {<<"loop", "send">>}]
    /\ UNCHANGED notWsb

\* the fan-out is over: gather returned (task_done), the for loop ended and the
\* disconnected clients are discarded, or the iterator raised and
\* _process_signal_queue logged the error
FanEnd ==
    /\ wsb.consumer = "fanout"
    /\ SetChangedSize \/ Unsent = {}
    /\ wsb' = [wsb EXCEPT
                 !.consumer = "poll", !.cur = 0, !.todo = {},
                 !.missed = wsb.stayed \ wsb.got,
                 !.done = IF SetChangedSize THEN @ ELSE @ \cup {wsb.cur},
                 !.logged = IF SetChangedSize THEN @ \cup {wsb.cur} ELSE @,
                 !.clients = IF wsb.kind = "dual" /\ ~SetChangedSize
                             THEN @ \ wsb.disc ELSE @]
    /\ UNCHANGED notWsb

\* stop: running cleared, the queue processor cancelled and awaited, the server
\* closed and with it the connections
WSStop ==
    /\ wsb.server = "open"
    /\ wsb' = [wsb EXCEPT !.running = FALSE, !.consumer = "cancelled",
                          !.consumers = 0, !.server = "closed", !.open = {},
                          !.stayed = {}, !.last = [c \in 1..NClients |-> 0]]
    /\ UNCHANGED notWsb

NextWS ==
    \/ WSStart
    \/ \E thread \in Threads : WSPut(thread)
    \/ \E c \in Clients : WSConnect(c)
    \/ \E c \in Clients : WSConnLost(c)
    \/ \E c \in Clients : WSUnregister(c)
    \/ ConsumerPoll
    \/ \E c \in Clients : FanSend(c)
    \/ FanEnd
    \/ WSStop

SpecWS == InitWS /\ [][NextWS]_vars

-----------------------------------------------------------------------------
(* SpecMerge: threads calling ThreadSafeFileManager.merge_csv_with_lock on   *)
(* one path, statement by statement                                          *)

notMrg == <<pipelineVars, trigVars, smVars, fetchVars, wsb, mfn, rmw, ut, moreVars>>

InitMerge ==
    /\ mrg = MrgNew
    /\ InitMonIdle
    /\ InitTrigIdle
    /\ InitSMIdle
    /\ InitFetchIdle
    /\ InitWsbIdle /\ InitMfnIdle /\ InitRmwIdle /\ InitUtIdle /\ InitMoreIdle

\* callers between the creation of the lock file and its removal
InCritical == {c \in Callers : mrg.pc[c] \in {"read", "write", "unlock"}}

\* merge_into_csv(df_closed, path): the call starts, "for attempt in range(...)"
MCall(c) ==
    /\ mrg.pc[c] = "idle"
    /\ mrg' = [mrg EXCEPT !.pc[c] = "check"]
    /\ UNCHANGED notMrg

\* "if os.path.exists(lock_file): time.sleep(...); continue"; when the range is
\* exhausted the function ends with "return df_new"
MCheck(c) ==
    /\ mrg.pc[c] = "check"
    /\ IF mrg.lock
       THEN IF mrg.attempt[c] + 1 < MergeMaxRetries
            THEN mrg' = [mrg EXCEPT !.attempt[c] = @ + 1]
            ELSE mrg' = [mrg EXCEPT !.attempt[c] = @ + 1, !.pc[c] = "done",
                                    !.ret[c] = "returned_df_new"]
       ELSE mrg' = [mrg EXCEPT !.pc[c] = "create"]
    /\ UNCHANGED notMrg

\* "except Exception as e: if attempt == max_retries - 1: raise e" and
\* "time.sleep(0.1)", after which the for loop takes its next pass
MergeExcept(m, c) ==
    IF m.attempt[c] = MergeMaxRetries - 1
    THEN [m EXCEPT !.pc[c] = "done", !.ret[c] = "raised", !.exc[c] = FALSE]
    ELSE [m EXCEPT !.pc[c] = "check", !.attempt[c] = @ + 1, !.exc[c] = FALSE]

\* how the statement that creates the lock file can end: the file is created
\* and the pid written; open raises and creates nothing; open creates the
\* file and the write of the pid (flushed when the with-block closes the
\* file) raises
LockFileOutcomes == {"created", "open_raises", "write_raises"}

\* "with open(lock_file, 'w') as f: f.write(str(os.getpid()))": the statement
\* stands before the inner try, so its exception goes to the except branch of
\* the loop without passing the finally clause
MCreate(c) ==
    /\ mrg.pc[c] = "create"
    /\ \E outcome \in LockFileOutcomes :
         mrg' = IF outcome = "created"
                THEN [mrg EXCEPT !.lock = TRUE, !.created = @ \cup {c},
                                 !.pc[c] = "read"]
                ELSE IF outcome = "open_raises"
                THEN MergeExcept(mrg, c)
                ELSE MergeExcept([mrg EXCEPT !.lock = TRUE,
                                             !.created = @ \cup {c}], c)
    /\ UNCHANGED notMrg

\* "df_old = pd.read_csv(path, ...)", which raises on a file it cannot parse
MRead(c) ==
    /\ mrg.pc[c] = "read"
    /\ \/ mrg' = [mrg EXCEPT !.df_old[c] = mrg.file, !.pc[c] = "write"]
       \/ mrg' = [mrg EXCEPT !.exc[c] = TRUE, !.pc[c] = "unlock"]
    /\ UNCHANGED notMrg

\* concat, de-duplication, sort and "df_all.to_csv(path)"
MWrite(c) ==
    /\ mrg.pc[c] = "write"
    /\ mrg' = [mrg EXCEPT !.file = mrg.df_old[c] \cup {c}, !.pc[c] = "unlock"]
    /\ UNCHANGED notMrg

\* "finally: if os.path.exists(lock_file): os.remove(lock_file)", then
\* "return df_all", or the except branch when the section raised
MUnlock(c) ==
    /\ mrg.pc[c] = "unlock"
    /\ mrg' = IF mrg.exc[c]
              THEN MergeExcept([mrg EXCEPT !.lock = FALSE], c)
              ELSE [mrg EXCEPT !.lock = FALSE, !.pc[c] = "done",
                               !.ret[c] = "returned_df_all"]
    /\ UNCHANGED notMrg

NextMerge ==
    \/ \E c \in Callers : MCall(c)
    \/ \E c \in Callers : MCheck(c)
    \/ \E c \in Callers : MCreate(c)
    \/ \E c \in Callers : MRead(c)
    \/ \E c \in Callers : MWrite(c)
    \/ \E c \in Callers : MUnlock(c)

SpecMerge == InitMerge /\ [][NextMerge]_vars

-----------------------------------------------------------------------------
(* SpecMergeFn: what one uncontended call of merge_csv_with_lock computes    *)
(* and persists; a frame is a sequence of rows [ts, v] in index order        *)

Timestamps == 1..MaxTs
CandleValues == 1..MaxVal
Rows == [ts : Timestamps, v : CandleValues]

RECURSIVE SeqsUpTo(_, _)
SeqsUpTo(S, n) ==
    IF n = 0 THEN {<<>>}
    ELSE LET shorter == SeqsUpTo(S, n - 1)
         IN  shorter \cup {Append(q, x) : q \in {r \in shorter : Len(r) = n - 1}, x \in S}

StrictlyIncreasing(df) == \A i \in 1..(Len(df) - 1) : df[i].ts < df[i + 1].ts

\* candle frames as the exchange returns them and as earlier merges stored them
Series == {df \in SeqsUpTo(Rows, MaxTs) : StrictlyIncreasing(df)}

\* df.to_csv(path): one line per row, the index first
to_csv(df) == [exists |-> TRUE, lines |-> [i \in 1..Len(df) |-> <<df[i].ts, df[i].v>>]]

\* pd.read_csv(path, index_col="datetime", parse_dates=True)
read_csv(file) == [i \in 1..Len(file.lines) |-> [ts |-> file.lines[i][1], v |-> file.lines[i][2]]]

\* pd.concat([df_old, df_new])
concat(df_old, df_new) == df_old \o df_new

\* a de-duplication that keeps the first row of each timestamp
duplicated_keep_first(df, i) == \E j \in 1..(i - 1) : df[j].ts = df[i].ts

\* df_all.index.duplicated(keep='last'): row i has a later row with its index
duplicated(df, i) == \E j \in (i + 1)..Len(df) : df[j].ts = df[i].ts

RECURSIVE SelectRows(_, _, _)
SelectRows(df, keep, i) ==
    IF i > Len(df) THEN <<>>
    ELSE (IF keep[i] THEN <<df[i]>> ELSE <<>>) \o SelectRows(df, keep, i + 1)

\* df_all[~df_all.index.duplicated(keep='last')]
drop_duplicated(df) ==
    SelectRows(df, [i \in 1..Len(df) |-> ~duplicated(df, i)], 1)

RECURSIVE InsertByIndex(_, _)
InsertByIndex(sorted, row) ==
    IF sorted = <<>> THEN <<row>>
    ELSE IF sorted[Len(sorted)].ts <= row.ts
         THEN Append(sorted, row)
         ELSE Append(InsertByIndex(SubSeq(sorted, 1, Len(sorted) - 1), row),
                     sorted[Len(sorted)])

RECURSIVE SortPrefix(_, _)
SortPrefix(df, n) ==
    IF n = 0 THEN <<>> ELSE InsertByIndex(SortPrefix(df, n - 1), df[n])

\* .sort_index(): rows in ascending index order, equal indexes in row order
sort_index(df) == SortPrefix(df, Len(df))

\* the body under the lock: "if os.path.exists(path): ... else: df_all = df_new"
merge_frames(df_new, file) ==
    IF file.exists
    THEN sort_index(drop_duplicated(concat(read_csv(file), df_new)))
    ELSE df_new

notMfn == <<pipelineVars, trigVars, smVars, fetchVars, wsb, mrg, rmw, ut, moreVars>>

InitMergeFn ==
    /\ mfn \in {MfnNew(file, df_new) :
                  file \in {NoFile} \cup {to_csv(df) : df \in Series},
                  df_new \in Series}
    /\ InitMonIdle
    /\ InitTrigIdle
    /\ InitSMIdle
    /\ InitFetchIdle
    /\ InitWsbIdle /\ InitMrgIdle /\ InitRmwIdle /\ InitUtIdle /\ InitMoreIdle

\* merge_csv_with_lock(df_new, path) with no lock file present: the first
\* attempt creates the lock, merges, writes the CSV, returns df_all and removes
\* the lock
MergeCall ==
    /\ mfn.pc = "new"
    /\ LET df_all == merge_frames(mfn.df_new, mfn.file)
       IN  mfn' = [mfn EXCEPT !.pc = "merged", !.file = to_csv(df_all),
                              !.ret = df_all, !.after1 = to_csv(df_all)]
    /\ UNCHANGED notMfn

\* the same batch merged once more (the next fetch returns the same candles)
MergeCallAgain ==
    /\ mfn.pc = "merged"
    /\ LET df_all == merge_frames(mfn.df_new, mfn.file)
       IN  mfn' = [mfn EXCEPT !.pc = "merged_again", !.file = to_csv(df_all),
                              !.ret = df_all]
    /\ UNCHANGED notMfn

NextMergeFn ==
    \/ MergeCall
    \/ MergeCallAgain

SpecMergeFn == InitMergeFn /\ [][NextMergeFn]_vars

-----------------------------------------------------------------------------
(* SpecRMW: worker threads of one batch whose targets have the same          *)
(* target key (the targets list may name one exchange, symbol and timeframe  *)
(* twice), from the read of the last state to the write of the new one       *)

RMWTarget == MonitorTarget(1, TRUE)
RMWKey == _get_target_key(RMWTarget)

notRmw == <<pipelineVars, trigVars, smVars, fetchVars, wsb, mrg, mfn, ut, moreVars>>

InitRMW ==
    /\ rmw \in {RmwNew(states, bar) :
                  states \in {EmptyDict} \cup {DictSet(EmptyDict, RMWKey, st) : st \in {"buy", "sell"}},
                  bar \in Frames}
    /\ InitMonIdle
    /\ InitTrigIdle
    /\ InitSMIdle
    /\ InitFetchIdle
    /\ InitWsbIdle /\ InitMrgIdle /\ InitMfnIdle /\ InitUtIdle /\ InitMoreIdle

\* "last_state = self.signal_states.get(target_key)"
\* (legacy: "last_state = self.signal_manager.get_state(target_key)", the lock
\* is held for the get alone)
RGet(w) ==
    /\ rmw.pc[w] = "idle"
    /\ rmw' = [rmw EXCEPT !.pc[w] = "got",
                          !.last_state[w] = DictGet(rmw.states, RMWKey)]
    /\ UNCHANGED notRmw

\* detect_signal_change on the state read before, "if new_state != last_state:
\* self.signal_states[target_key] = new_state" and "if signal_data: notify_signal"
\* (legacy: set_state under the lock for the set alone, then notify)
RStore(w) ==
    /\ rmw.pc[w] = "got"
    /\ \E sr \in SROutcomes :
         LET d == detect_signal_change(rmw.bar, rmw.last_state[w], RMWTarget, sr)
         IN  rmw' = [rmw EXCEPT !.pc[w] = "done",
                                !.states = StoreNewState(rmw.states, RMWKey,
                                                         rmw.last_state[w], d[1]),
                                !.event[w] = d[2]]
    /\ UNCHANGED notRmw

NextRMW ==
    \/ \E w \in SameKeyTasks : RGet(w)
    \/ \E w \in SameKeyTasks : RStore(w)

SpecRMW == InitRMW /\ [][NextRMW]_vars

-----------------------------------------------------------------------------
(* SpecUT: compute_ut_bot_v5 from src, thema and nLoss to the trailing stop  *)
(* and the buy and sell columns                                              *)

isnan(a) == a.nan
\* comparisons with nan are false
Lt(a, b) == ~a.nan /\ ~b.nan /\ a.x < b.x
Gt(a, b) == Lt(b, a)
Add(a, b) == IF a.nan \/ b.nan THEN NaN ELSE Num(a.x + b.x)
Sub(a, b) == IF a.nan \/ b.nan THEN NaN ELSE Num(a.x - b.x)
\* a maximum in which nan wins over a number, as np.maximum
NanMax(a, b) == IF isnan(b) THEN b ELSE IF Gt(b, a) THEN b ELSE a
\* a minimum that gives up the previous stop
SecondOperand(a, b) == b
\* the builtins min(a, b) and max(a, b): b only when it compares below (above) a
PyMin(a, b) == IF Lt(b, a) THEN b ELSE a
PyMax(a, b) == IF Gt(b, a) THEN b ELSE a

Prices == {Num(n) : n \in 1..MaxPrice}
\* a row of the inputs of step 4: src (never nan) and the moving average
UTRows == [src : Prices, thema : Prices \cup {NaN}]
\* leading rows for which ta.ATR returns nan
WarmupRows == {0, 2}

\* nLoss = a * atr, with a = 1.0 and an average true range of one price step
\* on the first two rows and of two price steps on the later ones
nLoss(i, warmup) == IF i <= warmup THEN NaN ELSE Num(IF i >= 3 THEN 2 ELSE 1)

\* the body of "for i in range(len(src))" for row i, given stop[: i]
StopStep(rows, warmup, stop, i) ==
    LET prev  == IF i = 1 \/ isnan(stop[i - 1]) THEN Num(0) ELSE stop[i - 1]
        src_i == rows[i].src
        cond1 == Gt(src_i, prev)
        cond2 == i > 1 /\ Lt(src_i, prev) /\ Lt(rows[i - 1].src, prev)
        cond3 == i > 1 /\ Gt(src_i, prev) /\ Gt(rows[i - 1].src, prev)
        iff1  == IF cond1 THEN Sub(src_i, nLoss(i, warmup))
                 ELSE Add(src_i, nLoss(i, warmup))
        iff2  == IF cond2 THEN PyMin(prev, Add(src_i, nLoss(i, warmup))) ELSE iff1
    IN  IF cond3 THEN PyMax(prev, Sub(src_i, nLoss(i, warmup))) ELSE iff2

RECURSIVE TrailingStop(_, _, _)
TrailingStop(rows, warmup, n) ==
    IF n = 0 THEN <<>>
    ELSE LET stop == TrailingStop(rows, warmup, n - 1)
         IN  Append(stop, StopStep(rows, warmup, stop, n))

\* a crossing test that looks at the current row alone
above_level(rows, stop, i) == Gt(rows[i].thema, stop[i])

\* "above = (thema[:-1] < stop[:-1]) & (thema[1:] > stop[1:])" at row i > 1
above(rows, stop, i) == Lt(rows[i - 1].thema, stop[i - 1]) /\ Gt(rows[i].thema, stop[i])

\* "below = (stop[:-1] < thema[:-1]) & (stop[1:] > thema[1:])" at row i > 1
below(rows, stop, i) == Lt(stop[i - 1], rows[i - 1].thema) /\ Gt(stop[i], rows[i].thema)

\* a first element that is set
FirstFlagSet == TRUE

\* "np.concatenate([[False], ...])": the first element of buy and sell
FirstFlag == FALSE

\* steps 4 and 5 and the allow_buy / allow_sell switches
compute_ut_bot_v5(rows, warmup, allow_buy, allow_sell) ==
    LET n    == Len(rows)
        stop == TrailingStop(rows, warmup, n)
        buy  == [i \in 1..n |-> IF i = 1 THEN FirstFlag
                                ELSE Gt(rows[i].src, stop[i]) /\ above(rows, stop, i)]
        sell == [i \in 1..n |-> IF i = 1 THEN FirstFlag
                                ELSE Lt(rows[i].src, stop[i]) /\ below(rows, stop, i)]
    IN  [stop |-> stop,
         buy  |-> IF allow_buy THEN buy ELSE [i \in 1..n |-> FALSE],
         sell |-> IF allow_sell THEN sell ELSE [i \in 1..n |-> FALSE]]

notUt == <<pipelineVars, trigVars, smVars, fetchVars, wsb, mrg, mfn, rmw, moreVars>>

InitUT ==
    /\ ut \in {UtNew(w) : w \in WarmupRows}
    /\ InitMonIdle
    /\ InitTrigIdle
    /\ InitSMIdle
    /\ InitFetchIdle
    /\ InitWsbIdle /\ InitMrgIdle /\ InitMfnIdle /\ InitRmwIdle /\ InitMoreIdle

\* one more closed candle in df_tail
UTAddRow ==
    /\ ut.pc = "rows"
    /\ Len(ut.rows) < MaxRows
    /\ \E r \in UTRows : ut' = [ut EXCEPT !.rows = Append(@, r)]
    /\ UNCHANGED notUt

\* compute_ut_bot_v5(df, allow_buy, allow_sell); on a frame with no rows
\* "df.open.iloc[0]" raises IndexError
UTCompute ==
    /\ ut.pc = "rows"
    /\ IF ut.rows = <<>>
       THEN ut' = [ut EXCEPT !.pc = "raised"]
       ELSE \E allow_buy \in BOOLEAN, allow_sell \in BOOLEAN :
              ut' = [ut EXCEPT !.pc = "computed",
                               !.allow_buy = allow_buy, !.allow_sell = allow_sell,
                               !.out = compute_ut_bot_v5(ut.rows, ut.warmup,
                                                         allow_buy, allow_sell)]
    /\ UNCHANGED notUt

NextUT ==
    \/ UTAddRow
    \/ UTCompute

SpecUT == InitUT /\ [][NextUT]_vars

-----------------------------------------------------------------------------
(* SpecSR: SmartMTFSR, from the candidate levels of one bar to the zones it  *)
(* reports. Prices are counted in ticks of 1 / HalvingScale so that the      *)
(* halving in Zone.merge_with is exact.                                      *)

HalvingScale == 2 ^ MaxCands
Abs(x) == IF x < 0 THEN 0 - x ELSE x

\* close of the current bar
CurrentPrice == 100 * HalvingScale
\* the levels the methods propose: 2 percent apart from the price upwards, or nan
LevelValues == {Num((100 + 2 * k) * HalvingScale) : k \in 0..MaxLevel} \cup {NaN}
\* cluster_percent
ClusterPercents == {1, 3}
\* show_within_percent
WithinPercents == {3, 5}
MinConfluences == {1, 2}
SortKeys == {"Confluence", "Reactions", "Distance"}

\* Zone.__init__ for candidate number i; methods lists the candidates merged
NewZone(level, i, zone_type) ==
    [level |-> level, top |-> level, bottom |-> level, methods |-> <<i>>,
     types |-> zone_type, confluence |-> 1, reactions |-> 0]

\* Zone.merge_with
merge_with(zone, other_level, i, zone_type) ==
    [zone EXCEPT !.top = IF other_level > @ THEN other_level ELSE @,
                 !.bottom = IF other_level < @ THEN other_level ELSE @,
                 !.level = (@ + other_level) \div 2,
                 !.confluence = @ + 1,
                 !.methods = Append(@, i),
                 !.types = IF zone_type # @ THEN "Mixed" ELSE @]

\* "abs(zone.level - level) / current_price * 100 < self.cluster_percent"
WithinCluster(a, b, current_price, cluster_percent) ==
    Abs(a - b) * 100 < cluster_percent * current_price

TypeOf(level, current_price) == IF level > current_price THEN "Resistance" ELSE "Support"

\* _cluster_levels after the first n candidates
RECURSIVE ClusterPrefix(_, _, _, _)
ClusterPrefix(levels, current_price, cluster_percent, n) ==
    IF n = 0 THEN <<>>
    ELSE LET zones == ClusterPrefix(levels, current_price, cluster_percent, n - 1)
             cand  == levels[n]
         IN  IF isnan(cand) THEN zones
             ELSE LET level == cand.x
                      hits  == {j \in 1..Len(zones) :
                                  WithinCluster(zones[j].level, level,
                                                current_price, cluster_percent)}
                  IN  IF hits = {}
                      THEN Append(zones, NewZone(level, n, TypeOf(level, current_price)))
                      ELSE LET j == CHOOSE h \in hits : \A g \in hits : h <= g
                           IN  [zones EXCEPT ![j] =
                                  merge_with(@, level, n, TypeOf(level, current_price))]

_cluster_levels(levels, current_price, cluster_percent) ==
    ClusterPrefix(levels, current_price, cluster_percent, Len(levels))

\* _calculate_reactions over the closes of the last reaction_lookback bars
_calculate_reactions(closes, top, bottom) ==
    Cardinality({k \in 1..Len(closes) : bottom <= closes[k] /\ closes[k] <= top})

RECURSIVE FilterPrefix(_, _, _, _, _)
FilterPrefix(zones, current_price, within, min_confluence, n) ==
    IF n = 0 THEN <<>>
    ELSE LET rest == FilterPrefix(zones, current_price, within, min_confluence, n - 1)
             zone == zones[n]
         IN  IF /\ Abs(zone.level - current_price) * 100 <= within * current_price
                /\ zone.confluence >= min_confluence
             THEN Append(rest, zone) ELSE rest

\* _filter_zones_by_distance
_filter_zones_by_distance(zones, current_price, within, min_confluence) ==
    FilterPrefix(zones, current_price, within, min_confluence, Len(zones))

\* the key of zones.sort for each sort_by
SortKey(zone, sort_by, current_price) ==
    IF sort_by = "Confluence" THEN zone.confluence
    ELSE IF sort_by = "Reactions" THEN zone.reactions
    ELSE Abs(zone.level - current_price)

\* a sort that is descending for every key
ReverseAlways(sort_by) == TRUE

\* "reverse=True" for Confluence and Reactions
Reverse(sort_by) == sort_by # "Distance"

\* zone a stays before zone b when b is inserted after it (list.sort is stable)
StaysBefore(a, b, sort_by, current_price) ==
    IF Reverse(sort_by)
    THEN SortKey(a, sort_by, current_price) >= SortKey(b, sort_by, current_price)
    ELSE SortKey(a, sort_by, current_price) <= SortKey(b, sort_by, current_price)

RECURSIVE InsertZone(_, _, _, _)
InsertZone(sorted, zone, sort_by, current_price) ==
    IF sorted = <<>> THEN <<zone>>
    ELSE IF StaysBefore(sorted[Len(sorted)], zone, sort_by, current_price)
         THEN Append(sorted, zone)
         ELSE Append(InsertZone(SubSeq(sorted, 1, Len(sorted) - 1), zone,
                                sort_by, current_price),
                     sorted[Len(sorted)])

RECURSIVE SortPrefixZones(_, _, _, _)
SortPrefixZones(zones, sort_by, current_price, n) ==
    IF n = 0 THEN <<>>
    ELSE InsertZone(SortPrefixZones(zones, sort_by, current_price, n - 1),
                    zones[n], sort_by, current_price)

\* _sort_zones: zones.sort(key=...) and "zones[:self.top_n]"
_sort_zones(zones, sort_by, current_price, top_n) ==
    LET sorted == SortPrefixZones(zones, sort_by, current_price, Len(zones))
    IN  SubSeq(sorted, 1, IF top_n < Len(sorted) THEN top_n ELSE Len(sorted))

\* one bar of compute_sr_levels before its levels are collected
SrzNew(first_close, cluster_percent) ==
    [pc |-> "levels", levels |-> <<>>, current_price |-> CurrentPrice,
     closes |-> <<first_close, CurrentPrice>>, cluster_percent |-> cluster_percent,
     zones |-> <<>>, passing |-> <<>>, out |-> <<>>,
     sort_by |-> "Confluence", top_n |-> 1, within |-> 0, min_confluence |-> 1]

notSrz == <<baseVars, cl, tk, sch>>

InitSR ==
    /\ srz \in {SrzNew(c.x, cp) : c \in LevelValues \ {NaN}, cp \in ClusterPercents}
    /\ InitBaseIdle
    /\ InitClIdle /\ InitTkIdle /\ InitSchIdle

\* "all_levels.append((level, method, tf, zone_type, extra))"
SRAddLevel ==
    /\ srz.pc = "levels"
    /\ Len(srz.levels) < MaxCands
    /\ \E level \in LevelValues : srz' = [srz EXCEPT !.levels = Append(@, level)]
    /\ UNCHANGED notSrz

\* "zones = self._cluster_levels(all_levels, current_price)" and the reactions
\* of each zone
SRCluster ==
    /\ srz.pc = "levels"
    /\ LET zones == _cluster_levels(srz.levels, srz.current_price, srz.cluster_percent)
       IN  srz' = [srz EXCEPT
                     !.pc = "zones",
                     !.zones = [j \in 1..Len(zones) |->
                                  [zones[j] EXCEPT !.reactions =
                                     _calculate_reactions(srz.closes, zones[j].top,
                                                          zones[j].bottom)]]]
    /\ UNCHANGED notSrz

\* "_filter_zones_by_distance" and "_sort_zones" under the configured options
SRReport ==
    /\ srz.pc = "zones"
    /\ \E sort_by \in SortKeys, top_n \in 1..MaxTopN, within \in WithinPercents,
          min_confluence \in MinConfluences :
         LET passing == _filter_zones_by_distance(srz.zones, srz.current_price,
                                                  within, min_confluence)
         IN  srz' = [srz EXCEPT
                       !.pc = "reported", !.sort_by = sort_by, !.top_n = top_n,
                       !.within = within, !.min_confluence = min_confluence,
                       !.passing = passing,
                       !.out = _sort_zones(passing, sort_by, srz.current_price, top_n)]
    /\ UNCHANGED notSrz

NextSR ==
    \/ SRAddLevel
    \/ SRCluster
    \/ SRReport

SpecSR == InitSR /\ [][NextSR]_vars

-----------------------------------------------------------------------------
(* SpecCfg: ConfigLoader._parse_config on the numeric options of the         *)
(* monitoring section, and the first wait computed from the loaded values.   *)

\* a value of the YAML mapping: its Python type and, for numbers, its value
Raw(type, v) == [type |-> type, v |-> v]
RawAbsent == Raw("absent", 0)
\* missing, "abc", 1.5, null, -1, 0, 45, 75, true
RawValues == {RawAbsent, Raw("str", 0), Raw("float", 1), Raw("none", 0),
              Raw("int", 0 - 1), Raw("int", 0), Raw("int", 45), Raw("int", 75),
              Raw("bool", 1)}

NumericOptions == {"trigger_second", "trigger_minutes", "fetch_limit", "tail_calc",
                   "max_retries", "retry_delay", "max_workers"}

\* the defaults passed to monitoring_data.get and to the validator
NumericDefaults ==
    [trigger_second |-> 30, trigger_minutes |-> 1, fetch_limit |-> 100,
     tail_calc |-> 50, max_retries |-> 3, retry_delay |-> 10, max_workers |-> 8]

\* isinstance(value, int): bool is a subclass of int
isinstance_int(value) == value.type \in {"int", "bool"}

\* ConfigValidator.validate_positive_integer
validate_positive_integer(value, default) ==
    IF ~isinstance_int(value) \/ value.v <= 0 THEN Raw("int", default) ELSE value

\* monitoring_data.get(name, default)
monitoring_data_get(data, name, default) ==
    IF data[name].type = "absent" THEN Raw("int", default) ELSE data[name]

\* the numeric fields of MonitoringConfig built by _parse_config
_parse_config(data) ==
    [name \in NumericOptions |->
        validate_positive_integer(
            monitoring_data_get(data, name, NumericDefaults[name]),
            NumericDefaults[name])]

\* a monitoring section that sets trigger_second and one more option
MonitoringData ==
    {[name \in NumericOptions |->
        IF name = "trigger_second" THEN ts ELSE IF name = other THEN v ELSE RawAbsent] :
     ts \in RawValues, other \in NumericOptions \ {"trigger_second"}, v \in RawValues}

notCl == <<baseVars, srz, tk, sch>>

InitCfg ==
    /\ cl \in {[pc |-> "file", data |-> d, monitoring |-> d, wait |-> 0] :
               d \in MonitoringData}
    /\ InitBaseIdle
    /\ InitSrzIdle /\ InitTkIdle /\ InitSchIdle

\* ConfigLoader.load
CfgLoad ==
    /\ cl.pc = "file"
    /\ cl' = [cl EXCEPT !.pc = "loaded", !.monitoring = _parse_config(cl.data)]
    /\ UNCHANGED notCl

\* the first "wait_seconds = self.seconds_until_trigger(now)" of the monitor loop
CfgFirstWait ==
    /\ cl.pc = "loaded"
    /\ LET r == seconds_until_trigger(0, cl.monitoring.trigger_minutes.v,
                                      cl.monitoring.trigger_second.v)
       IN  cl' = [cl EXCEPT !.pc = IF r.raised THEN "raised" ELSE "waiting",
                            !.wait = r.value]
    /\ UNCHANGED notCl

NextCfg ==
    \/ CfgLoad
    \/ CfgFirstWait

SpecCfg == InitCfg /\ [][NextCfg]_vars

-----------------------------------------------------------------------------
(* SpecTask: one target task from the merge of the fetched candles to its    *)
(* notifications, in BaseMonitor.process_target_with_strategies ("core") and *)
(* in CryptoMonitor.process_target of utbot_monitor_multi.py ("legacy").     *)
(* A cell value 0 stands for a cell of the CSV that is not a number.         *)

TaskTarget == MonitorTarget(1, TRUE)

\* the raw CSV before the task: missing, one good row, one row with a bad cell
TaskStored == {NoFile} \cup {to_csv(<<[ts |-> 1, v |-> v]>>) : v \in {0, 1}}

\* the closed candles of one fetch: none, one, or two
TaskFetched == {<<>>, <<[ts |-> 1, v |-> 2]>>, <<[ts |-> 2, v |-> 1]>>,
                <<[ts |-> 1, v |-> 2], [ts |-> 2, v |-> 1]>>}

\* df_all.tail(n)
tail(df, n) == IF Len(df) <= n THEN df ELSE SubSeq(df, Len(df) - n + 1, Len(df))

\* compute_ut_bot_v5 raises on a frame without rows ("df.open.iloc[0]") and on
\* a column holding text ("(df.open + df.high + df.low + df.close) / 4")
IndicatorRaises(df_tail) ==
    \/ df_tail = <<>>
    \/ \E i \in 1..Len(df_tail) : df_tail[i].v = 0

\* MessageFormatter.format_signal_message: the same five lines
format_signal_message(signal_type, exchange, symbol, timeframe, price) ==
    _format_signal_message(signal_type, exchange, symbol, timeframe, price)

\* MessageFormatter.create_signal_data
create_signal_data(exchange, symbol, timeframe, price, signal_type, target_key) ==
    [exchange    |-> exchange,
     symbol      |-> symbol,
     timeframe   |-> timeframe,
     price       |-> price,
     timestamp   |-> "YYYY-MM-DD HH:MM:SS UTC",
     target_key  |-> target_key,
     thread      |-> "thread",
     signal_type |-> signal_type]

\* CryptoMonitor.notify: the queue after "send_message(websocket_msg)"
CryptoMonitor_notify(cfg, queue, msg, level, signal_data) ==
    IF cfg.websocket_enabled
    THEN send_message_sync(queue, TRUE, create_websocket_message(level, msg, signal_data))
    ELSE queue

\* what the console shows of a notification
Printed(cfg, printed, msg) ==
    IF cfg.notification_enabled THEN Append(printed, msg) ELSE printed

TkNew(kind, cfg, file, fetched, tail_calc, state, latest) ==
    [pc |-> "start", kind |-> kind, cfg |-> cfg, file |-> file, file0 |-> file,
     fetched |-> fetched, tail_calc |-> tail_calc, df_all |-> <<>>,
     state |-> state, state0 |-> state, latest |-> latest,
     queue |-> <<>>, printed |-> <<>>, raised |-> FALSE, indicator_failed |-> FALSE,
     sr |-> "disabled", signal |-> NoData, fetch |-> "none", utbot_written |-> FALSE]

notTk == <<baseVars, srz, cl, sch>>

InitTask ==
    /\ tk \in {TkNew(kind, cfg, file, fetched, tail_calc, state, latest) :
                 kind \in {"core", "legacy"},
                 cfg \in [notification_enabled : BOOLEAN, websocket_enabled : BOOLEAN],
                 file \in TaskStored, fetched \in TaskFetched, tail_calc \in {1, 50},
                 state \in {None, "buy", "sell"}, latest \in Bars}
    /\ InitBaseIdle
    /\ InitSrzIdle /\ InitClIdle /\ InitSchIdle

\* "df_all = self.merge_into_csv(df_closed, target.csv_raw)"
TaskMerge ==
    /\ tk.pc = "fetched"
    /\ LET df_all == merge_frames(tk.fetched, tk.file)
       IN  tk' = [tk EXCEPT !.pc = "merged", !.df_all = df_all, !.file = to_csv(df_all)]
    /\ UNCHANGED notTk

\* the except branch of the task
TaskError(t) ==
    IF t.kind = "core"
    THEN LET r == notify_error(t.cfg, TRUE, t.queue, TaskTarget)
         IN  [t EXCEPT !.pc = "failed",
                       !.printed = Printed(t.cfg, @, <<"ERROR", TaskTarget.exchange,
                                                      TaskTarget.symbol, TaskTarget.timeframe>>),
                       !.queue = r.queue, !.raised = r.raised]
    ELSE [t EXCEPT !.pc = "failed",
                   !.printed = Printed(t.cfg, @, <<"ERROR", TaskTarget.exchange,
                                                  TaskTarget.symbol, TaskTarget.timeframe>>),
                   !.queue = CryptoMonitor_notify(t.cfg, @,
                                <<"error", TaskTarget.exchange, TaskTarget.symbol,
                                  TaskTarget.timeframe>>, "ERROR", EmptyDict)]

\* self.exchanges as the task finds it: both exchanges connected, or the
\* connection of the target's exchange failed in _init_exchanges
TaskExchanges == {ExchangeIds, ExchangeIds \ {TaskTarget.exchange}}

\* "df_closed = self.fetch_closed_candles(target)": the candles of tk.fetched
\* are returned, or the call raises and the except branch ends the task
TaskFetch ==
    /\ tk.pc = "start"
    /\ \E exch \in TaskExchanges, outcomes \in OutcomeSeqs :
         LET r == fetch_closed_candles(TaskTarget, exch,
                     [max_retries |-> MaxRetriesCfg, retry_delay |-> 10], outcomes)
         IN  tk' = IF r.raised THEN TaskError([tk EXCEPT !.fetch = r.kind])
                   ELSE [tk EXCEPT !.pc = "fetched", !.fetch = r.kind]
    /\ UNCHANGED notTk

\* "df_signals = strategy.calculate_signals(df_tail)" raises
TaskIndicatorFails ==
    /\ tk.pc = "merged"
    /\ IndicatorRaises(tail(tk.df_all, tk.tail_calc))
    /\ tk' = TaskError([tk EXCEPT !.indicator_failed = TRUE])
    /\ UNCHANGED notTk

\* the indicator succeeds: df_signals is written to csv_utbot, then signal
\* detection, state update and notification
TaskSignals ==
    /\ tk.pc = "merged"
    /\ ~IndicatorRaises(tail(tk.df_all, tk.tail_calc))
    /\ \E sr \in SROutcomes :
       LET d  == detect_signal_change(tk.latest, tk.state, TaskTarget, sr)
           t1 == [tk EXCEPT !.state = d[1], !.signal = d[2], !.utbot_written = TRUE,
                            !.sr = IF d[2] = NoData THEN "disabled" ELSE sr]
       IN  IF d[2] = NoData THEN tk' = [t1 EXCEPT !.pc = "done"]
           ELSE LET sd == d[2][1] IN
                IF tk.kind = "core"
                THEN LET r  == notify_signal(tk.cfg, TRUE, tk.queue, sd)
                         t2 == [t1 EXCEPT !.printed = Printed(tk.cfg, @, <<"WARNING">>),
                                          !.queue = r.queue]
                     IN  tk' = IF r.raised THEN TaskError(t2)
                               ELSE [t2 EXCEPT !.pc = "done"]
                ELSE tk' = [t1 EXCEPT
                              !.pc = "done",
                              !.printed = Printed(tk.cfg, @, <<"WARNING">>),
                              !.queue = CryptoMonitor_notify(tk.cfg, @,
                                  format_signal_message(sd.signal_type, sd.exchange,
                                      sd.symbol, sd.timeframe, sd.price),
                                  "WARNING",
                                  create_signal_data(sd.exchange, sd.symbol, sd.timeframe,
                                      sd.price, sd.signal_type, sd.target_key))]
    /\ UNCHANGED notTk

NextTask ==
    \/ TaskFetch
    \/ TaskMerge
    \/ TaskIndicatorFails
    \/ TaskSignals

SpecTask == InitTask /\ [][NextTask]_vars

-----------------------------------------------------------------------------
(* SpecSched: the triggers of MultiThreadMonitor._monitor_loop over time.    *)
(* The clock is in ticks from the start of a minute; a sleep ends at its     *)
(* target and a batch takes less than trigger_minutes minutes.               *)

\* seconds into the minute at which the loop starts
SchedStarts == {0, 20, 45}
SchedSeconds == {0, 30, 59}

\* how long _process_targets_batch can take, in ticks: one tick, or 10, 50, 70
\* or 110 seconds, below m minutes
BatchDurations(m) ==
    {d \in {1} \cup {sec * TicksPerSecond : sec \in {10, 50, 70, 110}} :
        d < m * TicksPerMinute}

notSch == <<baseVars, srz, cl, tk>>

InitSched ==
    /\ sch \in {[pc |-> "top", m |-> m, trigger_second |-> sec,
                 now |-> start * TicksPerSecond, triggers |-> 0, last |-> 0, gap |-> 0] :
                m \in 1..MaxPeriod, sec \in SchedSeconds, start \in SchedStarts}
    /\ InitBaseIdle
    /\ InitSrzIdle /\ InitClIdle /\ InitTkIdle

\* "sleep_sec = self.seconds_until_trigger()" and "await asyncio.sleep(sleep_sec)":
\* the loop wakes at the target and the batch is triggered
SchedSleep ==
    /\ sch.pc = "top"
    /\ sch.triggers < MaxTriggers
    /\ LET sleep_sec == seconds_until_trigger(sch.now, sch.m, sch.trigger_second)
           at        == sch.now + sleep_sec.value
       IN  sch' = [sch EXCEPT !.pc = "batch", !.now = at, !.triggers = @ + 1,
                              !.last = at,
                              !.gap = IF sch.triggers = 0 THEN 0 ELSE at - sch.last]
    /\ UNCHANGED notSch

\* "results = await self._process_targets_batch(targets)" returns
SchedBatch ==
    /\ sch.pc = "batch"
    /\ \E d \in BatchDurations(sch.m) :
         sch' = [sch EXCEPT !.pc = "top", !.now = @ + d]
    /\ UNCHANGED notSch

NextSched ==
    \/ SchedSleep
    \/ SchedBatch

SpecSched == InitSched /\ [][NextSched]_vars

-----------------------------------------------------------------------------
(* SpecPsy: the candidate levels compute_sr_levels collects for one bar,     *)
(* over the configured timeframes and the psychological levels. The record   *)
(* is kept in srz.                                                           *)

TimeframeNames == {"5", "15", "60"}
\* self.timeframes: a list of one or several entries
TimeframeLists == {tfs \in SeqsUpTo(TimeframeNames, MaxTfs) : tfs # <<>>}
\* closes of the current bar, one per interval of _calculate_psychological_levels
PsyPrices == {15, 100, 1500, 15000}
\* show_within_percent
PsyWithinPercents == {5}

\* "interval" for a price of 10 or more
PsyInterval(current_price) ==
    IF current_price >= 10000 THEN 1000
    ELSE IF current_price >= 1000 THEN 100
    ELSE IF current_price >= 100 THEN 10
    ELSE 1

\* _calculate_psychological_levels for a price of 10 or more: the multiples of
\* interval from int(min_price / interval) * interval to
\* int(max_price / interval + 1) * interval, the price itself left out
_calculate_psychological_levels(current_price, within) ==
    LET interval == PsyInterval(current_price)
        start    == ((current_price * (100 - within)) \div (100 * interval)) * interval
        end      == ((current_price * (100 + within)) \div (100 * interval) + 1) * interval
    IN  {level \in start..end : level % interval = 0 /\ level # current_price}

\* the highest element of a set of levels
MaxOf(S) == CHOOSE x \in S : \A y \in S : y <= x

\* the levels of a set in ascending order, as tuples (level, method, tf)
RECURSIVE Ascending(_, _, _)
Ascending(S, method, tf) ==
    IF S = {} THEN <<>>
    ELSE Append(Ascending(S \ {MaxOf(S)}, method, tf),
                [level |-> MaxOf(S), method |-> method, tf |-> tf])

\* "if self.show_psychological_levels and tf == self.timeframes[0]", after the
\* loop over the timeframes: tf is the last timeframe of the loop
PsychologicalBlockRuns(show, tf, timeframes) == show /\ tf = timeframes[1]

PsyNew(timeframes, show, current_price) ==
    [pc |-> "tf_loop", timeframes |-> timeframes, show_psychological_levels |-> show,
     current_price |-> current_price, within |-> CHOOSE w \in PsyWithinPercents : TRUE,
     k |-> 0, tf |-> "", all_levels |-> <<>>, zones |-> <<>>]

InitPsy ==
    /\ srz \in {PsyNew(tfs, show, price) :
                  tfs \in TimeframeLists, show \in BOOLEAN, price \in PsyPrices}
    /\ InitBaseIdle
    /\ InitClIdle /\ InitTkIdle /\ InitSchIdle

\* one pass of "for tf in self.timeframes:" with show_swings: a swing high of
\* that timeframe is found, or none
PsyTimeframe ==
    /\ srz.pc = "tf_loop"
    /\ srz.k < Len(srz.timeframes)
    /\ \E found \in BOOLEAN :
         LET tf == srz.timeframes[srz.k + 1] IN
         srz' = [srz EXCEPT
                   !.k = @ + 1, !.tf = tf,
                   !.all_levels =
                      IF found
                      THEN Append(@, [level |-> srz.current_price + PsyInterval(srz.current_price),
                                      method |-> "Swing High", tf |-> tf])
                      ELSE @]
    /\ UNCHANGED notSrz

\* the loop is over: the psychological block and
\* "zones = self._cluster_levels(all_levels, current_price)"
PsyCluster ==
    /\ srz.pc = "tf_loop"
    /\ srz.k = Len(srz.timeframes)
    /\ LET all_levels ==
             IF PsychologicalBlockRuns(srz.show_psychological_levels, srz.tf,
                                       srz.timeframes)
             THEN srz.all_levels \o
                  Ascending(_calculate_psychological_levels(srz.current_price,
                                                            srz.within),
                            "Psychological", "All")
             ELSE srz.all_levels
       IN  srz' = [srz EXCEPT
                     !.pc = "clustered", !.all_levels = all_levels,
                     !.zones = _cluster_levels(
                                  [i \in 1..Len(all_levels) |->
                                      Num(all_levels[i].level * HalvingScale)],
                                  srz.current_price * HalvingScale, 1)]
    /\ UNCHANGED notSrz

NextPsy ==
    \/ PsyTimeframe
    \/ PsyCluster

SpecPsy == InitPsy /\ [][NextPsy]_vars

-----------------------------------------------------------------------------
(* SpecTerm: one batch of _process_targets_batch with the loops of its tasks *)
(* taken pass by pass: "for attempt in range(max_retries)" of                *)
(* fetch_closed_candles and "for attempt in range(max_retries)" of           *)
(* merge_csv_with_lock.  Every call of the candle source returns or raises.  *)

\* how one pass of the merge loop can end: the lock file exists (sleep,
\* continue); the section runs and returns df_all; the creation of the lock
\* file or the section raises
MergePassOutcomes == {"locked", "merged", "raised"}

\* a task at the start of process_target_with_strategies: calls counts the
\* fetch_ohlcv calls of the fetch loop it is in, passes the passes begun of
\* the merge loop it is in; once a loop is left, bounded tells whether it
\* stayed within max_retries calls and MergeMaxRetries passes, and
\* fetch_full and merge_full whether it used all of them
TermTask == [pc |-> "fetch", calls |-> 0, passes |-> 0, bounded |-> TRUE,
             fetch_full |-> FALSE, merge_full |-> FALSE]

\* the batch after its tasks have been submitted
TermNew(max_retries) ==
    [pc |-> "collecting", max_retries |-> max_retries,
     task |-> [t \in Targets |-> TermTask], returned |-> FALSE]

InitTerm ==
    /\ cl \in {TermNew(r) : r \in {1, MaxRetriesCfg}}
    /\ InitBaseIdle
    /\ InitSrzIdle /\ InitTkIdle /\ InitSchIdle

\* the task after one pass of the fetch loop (attempt = calls made before it)
FetchPass(tsk, max_retries, outcome) ==
    IF outcome = "ok" THEN [tsk EXCEPT !.calls = @ + 1, !.pc = "merge"]
    ELSE IF HasRetryLeft(tsk.calls, max_retries)
    THEN [tsk EXCEPT !.calls = @ + 1]                 \* sleep, next pass
    ELSE [tsk EXCEPT !.calls = @ + 1, !.pc = "except"]  \* raise

\* a merge loop that waits one pass more for the lock
MergePassOneMore(tsk, max_retries, outcome) ==
    IF outcome = "merged" THEN [tsk EXCEPT !.passes = @ + 1, !.pc = "signals"]
    ELSE IF outcome = "locked"
    THEN IF tsk.passes + 1 <= max_retries
         THEN [tsk EXCEPT !.passes = @ + 1]
         ELSE [tsk EXCEPT !.passes = @ + 1, !.pc = "signals"]
    ELSE IF tsk.passes >= max_retries - 1
         THEN [tsk EXCEPT !.passes = @ + 1, !.pc = "except"]
         ELSE [tsk EXCEPT !.passes = @ + 1]

\* the task after one pass of the merge loop (attempt = passes begun before it)
MergePass(tsk, max_retries, outcome) ==
    IF outcome = "merged" THEN [tsk EXCEPT !.passes = @ + 1, !.pc = "signals"]
    ELSE IF outcome = "locked"
    THEN IF tsk.passes + 1 < max_retries
         THEN [tsk EXCEPT !.passes = @ + 1]           \* sleep, continue
         ELSE [tsk EXCEPT !.passes = @ + 1, !.pc = "signals"]  \* return df_new
    ELSE IF tsk.passes = max_retries - 1
         THEN [tsk EXCEPT !.passes = @ + 1, !.pc = "except"]   \* raise e
         ELSE [tsk EXCEPT !.passes = @ + 1]           \* sleep, next pass

\* a worker thread runs one pass of the fetch loop of task t
TermFetchPass(t) ==
    /\ cl.pc \in {"collecting", "draining"}
    /\ cl.task[t].pc = "fetch"
    /\ \E outcome \in FetchOutcomes :
         LET n == FetchPass(cl.task[t], cl.max_retries, outcome)
         IN  cl' = [cl EXCEPT !.task[t] =
                      IF n.pc = "fetch" THEN n
                      ELSE [n EXCEPT !.calls = 0,
                                     !.bounded = @ /\ n.calls <= cl.max_retries,
                                     !.fetch_full = n.calls = cl.max_retries]]
    /\ UNCHANGED notCl

\* a worker thread runs one pass of the merge loop of task t
TermMergePass(t) ==
    /\ cl.pc \in {"collecting", "draining"}
    /\ cl.task[t].pc = "merge"
    /\ \E outcome \in MergePassOutcomes :
         LET n == MergePass(cl.task[t], MergeMaxRetries, outcome)
         IN  cl' = [cl EXCEPT !.task[t] =
                      IF n.pc = "merge" THEN n
                      ELSE [n EXCEPT !.passes = 0,
                                     !.bounded = @ /\ n.passes <= MergeMaxRetries,
                                     !.merge_full = n.passes = MergeMaxRetries]]
    /\ UNCHANGED notCl

\* the rest of the task: the indicator, the signal detection and the
\* notification, any of which may raise, and the except branch
TermFinish(t) ==
    /\ cl.pc \in {"collecting", "draining"}
    /\ cl.task[t].pc \in {"signals", "except"}
    /\ \/ cl' = [cl EXCEPT !.task[t].pc = "done"]
       \/ /\ cl.task[t].pc = "signals"
          /\ cl' = [cl EXCEPT !.task[t].pc = "except"]
    /\ UNCHANGED notCl

\* "await completed_future" for a finished task
TermCollect(t) ==
    /\ cl.pc = "collecting"
    /\ cl.task[t].pc = "done"
    /\ cl' = [cl EXCEPT !.task[t].pc = "collected"]
    /\ UNCHANGED notCl

\* the as_completed loop is exhausted, the with-block is left and
\* "return stats_tracker.finish_batch()" is reached
TermBatchReturns ==
    /\ cl.pc = "collecting"
    /\ \A t \in Targets : cl.task[t].pc = "collected"
    /\ cl' = [cl EXCEPT !.pc = "left", !.returned = TRUE]
    /\ UNCHANGED notCl

\* MultiThreadMonitor.stop: "self.monitor_task.cancel()" while the batch waits
\* in "await completed_future"
TermStop ==
    /\ cl.pc = "collecting"
    /\ cl' = [cl EXCEPT !.pc = "draining"]
    /\ UNCHANGED notCl

\* CancelledError leaves the with-block once shutdown(wait=True) has joined
\* the workers; finish_batch is not reached
TermDrained ==
    /\ cl.pc = "draining"
    /\ \A t \in Targets : cl.task[t].pc \in {"done", "collected"}
    /\ cl' = [cl EXCEPT !.pc = "left"]
    /\ UNCHANGED notCl

NextTerm ==
    \/ \E t \in Targets : TermFetchPass(t)
    \/ \E t \in Targets : TermMergePass(t)
    \/ \E t \in Targets : TermFinish(t)
    \/ \E t \in Targets : TermCollect(t)
    \/ TermBatchReturns
    \/ TermStop
    \/ TermDrained

\* the operating system runs every worker thread and the event loop every
\* ready coroutine; nothing obliges the operator to stop the service
SpecTerm ==
    /\ InitTerm
    /\ [][NextTerm]_vars
    /\ \A t \in Targets : /\ WF_vars(TermFetchPass(t))
                          /\ WF_vars(TermMergePass(t))
                          /\ WF_vars(TermFinish(t))
                          /\ WF_vars(TermCollect(t))
    /\ WF_vars(TermBatchReturns)
    /\ WF_vars(TermDrained)

-----------------------------------------------------------------------------
(* Properties *)

\* the evaluations of sm_log whose event is a BUY
BuyEvents ==
    {i \in DOMAIN sm_log : sm_log[i].event # NoData
                           /\ sm_log[i].event[1].signal_type = "BUY"}

\* the first four evaluations saw bars with buy flags false, true, true, false
BuyFlagsFTTF ==
    /\ Len(sm_log) >= 4
    /\ \A i \in 1..4 : ~sm_log[i].bar.empty
    /\ ~sm_log[1].bar.buy /\ sm_log[2].bar.buy
    /\ sm_log[3].bar.buy /\ ~sm_log[4].bar.buy

\* C1: over any sequence of evaluations of one target, an evaluation produces
\* a signal event if and only if it changes the target's stored state; with
\* latest-bar buy flags false, true, true, false from the initial state, the
\* BUY events of the four evaluations are exactly the one of the second.
C1_EventIffStateChange ==
    /\ \A i \in DOMAIN sm_log :
         (sm_log[i].event # NoData) <=> (sm_log[i].after # sm_log[i].before)
    /\ BuyFlagsFTTF => (BuyEvents \cap (1..4)) = {2}

C1_Witness ==
    /\ BuyFlagsFTTF
    /\ sm_log[2].event # NoData
    /\ sm_log[3].event = NoData
    /\ sm_log[3].after = "buy"

\* the stored state of target t
StateOf(t) == DictGet(signal_states, _get_target_key(Target(t)))

\* the task of target t performs its state update in this step
Evaluates(t) == pc[t] = "update" /\ pc'[t] # "update"

\* C2: a target's stored state is unset (flat), "buy" (long) or "sell"
\* (short); an evaluation moves flat or short to long exactly when the latest
\* bar's buy flag is set, flat or long to short exactly when its sell flag is
\* set, and changes nothing otherwise; nothing else changes the state, and a
\* state that has left flat never returns to it.
C2_StateMachine ==
    [][\A t \in Targets :
         LET old == StateOf(t)
             new == DictGet(signal_states', _get_target_key(Target(t)))
             bar == task[t].bar
         IN  /\ old \in {None, "buy", "sell"}
             /\ new \in {None, "buy", "sell"}
             /\ old # None => new # None
             /\ Evaluates(t) =>
                  /\ old \in {None, "sell"} => (new = "buy" <=> bar.buy)
                  /\ old \in {None, "buy"} => (new = "sell" <=> bar.sell)
                  /\ ~bar.buy /\ ~bar.sell => new = old
                  /\ new # old => new \in {"buy", "sell"}
             /\ ~Evaluates(t) => new = old]_vars

C2_Witness ==
    \E t \in Targets :
        /\ StateOf(t) = "sell"
        /\ pc[t] = "update"
        /\ task[t].bar.buy
        /\ task[t].new_state = "buy"

C4_BoundedParallelism ==
    batchPc # "idle" =>
        /\ Cardinality(RunningTasks)
              <= Min(Min(Cardinality(batch), config.max_workers), HardCap)
        /\ max_workers >= 1

C4_Witness ==
    /\ batchPc = "collecting"
    /\ config.max_workers = 1
    /\ Cardinality(batch) = 2
    /\ Cardinality(RunningTasks) = 1
    /\ \E t \in Targets : pc[t] = "queued"

\* C5: the result of a batch counts as errors exactly the tasks that failed
\* and as successes the others.
C5_CountsMatchFailures ==
    result.valid =>
        /\ result.error_count = Cardinality(failed)
        /\ result.success_count = Cardinality(batch) - Cardinality(failed)

\* C6: every entry of the errors list carries the key of a target of the batch
\* whose task failed.
C6_ErrorsKeyedByFailedTarget ==
    \A i \in DOMAIN stats.errors :
        stats.errors[i].target \in {_get_target_key(Target(t)) : t \in failed}

\* the first pass, of the max_retries the call may make, that meets success
\* (0: none)
FirstOk ==
    LET oks == {i \in 1..config.max_retries : f_outcomes[i] = "ok"} IN
    IF oks = {} THEN 0 ELSE CHOOSE i \in oks : \A j \in oks : i <= j

\* C7: a call of fetch_closed_candles calls the candle source at most
\* max_retries times; it returns at the first success without a further call;
\* it sleeps retry_delay once after each failed attempt but the last; it raises
\* exactly when all max_retries attempts failed or when the exchange is not
\* connected, and then without any call.
C7_RetryBudget ==
    f_result.done =>
        LET connected == MonitorTarget(f_target, TRUE).exchange \in exchanges IN
        /\ f_result.calls <= config.max_retries
        /\ f_result.raised <=> (~connected \/ FirstOk = 0)
        /\ ~connected => f_result.calls = 0 /\ f_result.sleeps = 0
        /\ (connected /\ FirstOk # 0) =>
              /\ f_result.kind = "ok"
              /\ f_result.calls = FirstOk
              /\ f_result.sleeps = FirstOk - 1
        /\ (connected /\ FirstOk = 0) =>
              /\ f_result.calls = config.max_retries
              /\ f_result.sleeps = config.max_retries - 1
        /\ f_result.slept = f_result.sleeps * config.retry_delay

C7_Witness ==
    /\ f_result.done
    /\ config.max_retries >= 2
    /\ f_result.raised
    /\ f_result.calls = config.max_retries
    /\ f_result.sleeps = config.max_retries - 1

\* C8: when seconds_until_trigger returns, its value is the time from now to
\* the instant of now's minute whose second is trigger_second if that instant
\* is strictly after now, and that time plus the period otherwise; it is
\* strictly positive and at most 60 * minutes seconds; 12:00:05 gives 25 s and
\* 12:00:45 gives 45 s for trigger_second 30 and a period of one minute.
C8_NextTrigger ==
    (t_result.done /\ ~t_result.raised) =>
        LET instant == (t_now \div TicksPerMinute) * TicksPerMinute
                          + t_second * TicksPerSecond
        IN  /\ instant > t_now => t_result.value = instant - t_now
            /\ instant <= t_now =>
                  t_result.value = instant + t_minutes * TicksPerMinute - t_now
            /\ t_result.value > 0
            /\ t_result.value <= 60 * t_minutes * TicksPerSecond
            /\ (t_second = 30 /\ t_minutes = 1 /\ t_now = 5 * TicksPerSecond)
                  => t_result.value = 25 * TicksPerSecond
            /\ (t_second = 30 /\ t_minutes = 1 /\ t_now = 45 * TicksPerSecond)
                  => t_result.value = 45 * TicksPerSecond

C8_Witness ==
    /\ t_result.done
    /\ t_second = 30
    /\ t_minutes = 1
    /\ t_now = 30 * TicksPerSecond
    /\ t_result.value = 60 * TicksPerSecond

\* C9: while the monitor is not stopped, a cooldown of the scheduler loop is
\* followed by the dispatch of another batch.
C9_CooldownLeadsToBatch ==
    (loopPc = "cooldown") ~>
        (loopPc = "inbatch" \/ ~running \/ batch_no = MaxBatches)

\* the envelope of a signal of target t in the given direction
IsSignalEnvelope(m, t, new_state) ==
    /\ m.type = "notification"
    /\ m.data = [exchange    |-> Target(t).exchange,
                 symbol      |-> Target(t).symbol,
                 timeframe   |-> Target(t).timeframe,
                 price       |-> task[t].bar.close,
                 target_key  |-> _get_target_key(Target(t)),
                 signal_type |-> IF new_state = "buy" THEN "BUY" ELSE "SELL"]

\* C10: with notifications and the WebSocket server on, a step that changes
\* a target's stored state appends exactly one signal envelope of that target
\* and direction to the message queue.
C10_TransitionEnqueuesSignal ==
    [][\A t \in Targets :
         LET new == DictGet(signal_states', _get_target_key(Target(t))) IN
         (config.notification_enabled /\ config.websocket_enabled /\ ws_running
            /\ new # StateOf(t)) =>
              /\ Len(message_queue') = Len(message_queue) + 1
              /\ IsSignalEnvelope(message_queue'[Len(message_queue')], t, new)]_vars

\* C11: a worker thread touches the WebSocket server only by putting a message
\* on its queue; the set of subscribers is read and changed, messages are
\* taken off the queue and sends are made only in the event loop; at most one
\* queue consumer exists, and exactly one while the server is up.
C11_QueueIsTheOnlyHandOff ==
    /\ \A a \in wsb.access :
         /\ a[1] = "worker" => a[2] = "queue.put"
         /\ a[2] \in {"clients", "send", "queue.get"} => a[1] = "loop"
    /\ wsb.consumers <= 1
    /\ wsb.server = "open" => wsb.consumers = 1 /\ wsb.consumer # "none"
    /\ wsb.consumers = 0 => wsb.consumer \in {"none", "cancelled"}

C11_Witness ==
    /\ <<"worker", "queue.put">> \in wsb.access
    /\ <<"loop", "send">> \in wsb.access
    /\ wsb.done # {}
    /\ wsb.got # {}

\* C12: at most one caller at a time is between creating the lock file of a
\* path and removing it, and the file holds the batch of every caller that
\* returned from its merge.
C12_ExclusiveSection ==
    /\ Cardinality(InCritical) <= 1
    /\ \A c \in Callers : mrg.ret[c] = "returned_df_all" => c \in mrg.file

\* C13: a call of merge_csv_with_lock that returns normally has merged its
\* batch into the file and written it.
C13_ReturnsOnlyAfterMerging ==
    \A c \in Callers :
        (mrg.pc[c] = "done" /\ mrg.ret[c] # "raised") => mrg.ret[c] = "returned_df_all"

\* C14: for a stored series and a new batch with strictly increasing
\* timestamps, the series merge_csv_with_lock returns and writes holds every
\* timestamp of both, has no duplicate timestamp, is sorted by timestamp and
\* carries the new batch's row wherever timestamps collide; merging the same
\* batch a second time leaves the stored series as the first merge wrote it.
TsOf(df) == {df[i].ts : i \in 1..Len(df)}
RowsOf(df) == {df[i] : i \in 1..Len(df)}
StoredBefore == IF mfn.stored0.exists THEN read_csv(mfn.stored0) ELSE <<>>

C14_MergeIsSortedUnionLastWins ==
    mfn.pc \in {"merged", "merged_again"} =>
        LET out == read_csv(mfn.file)
        IN  /\ mfn.file.exists
            /\ mfn.ret = out
            /\ TsOf(out) = TsOf(StoredBefore) \cup TsOf(mfn.df_new)
            /\ StrictlyIncreasing(out)
            /\ RowsOf(mfn.df_new) \subseteq RowsOf(out)
            /\ \A r \in RowsOf(StoredBefore) :
                   r.ts \notin TsOf(mfn.df_new) => r \in RowsOf(out)
            /\ mfn.pc = "merged_again" => mfn.file = mfn.after1

\* a second merge of a batch that collides with the stored series on a
\* timestamp with another value, adds a timestamp before a stored one and
\* leaves a stored one alone
C14_Witness ==
    /\ mfn.pc = "merged_again"
    /\ \E r \in RowsOf(StoredBefore), n \in RowsOf(mfn.df_new) : r.ts = n.ts /\ r.v # n.v
    /\ \E r \in RowsOf(StoredBefore), n \in RowsOf(mfn.df_new) :
           n.ts < r.ts /\ n.ts \notin TsOf(StoredBefore)
    /\ \E r \in RowsOf(StoredBefore) : r.ts \notin TsOf(mfn.df_new)

\* C15: among the tasks that evaluate one target key on the same bar, at most
\* one observes a transition and passes a signal to notify_signal.
C15_AtMostOneEmits ==
    Cardinality({w \in SameKeyTasks : rmw.event[w] # NoData}) <= 1

\* C16: once stop has cancelled the queue consumer, every message that
\* send_message_sync accepted into the queue has been broadcast or the failure
\* to broadcast it has been logged.
C16_StopDrainsOrLogs ==
    wsb.consumer = "cancelled" => wsb.accepted \subseteq (wsb.done \cup wsb.logged)

\* C18: when a fan-out ends, every subscriber that was registered when it
\* started and stayed connected through it without a failing send has been
\* sent the message, whatever happened to the other subscribers meanwhile.
C18_FanOutReachesAllConnected == wsb.missed = {}

\* C17: a stop goes in order. When monitor.stop has returned the loop task is
\* cancelled (or was never started), the batch has been left and no task is
\* queued or running; the queue processor is cancelled only after that, and
\* the server is closed only after the queue processor was cancelled; from the
\* return of monitor.stop on no batch is dispatched and no task moves.
MonitorStopReturned == mainPc \in {"ws_stop", "ws_close", "stopped"}

C17_StopOrder ==
    /\ [](MonitorStopReturned =>
             /\ loopPc \in {"none", "cancelled"}
             /\ batchPc = "idle"
             /\ \A t \in Targets : ~InFlight(t))
    /\ [](ws_consumer = "cancelled" => MonitorStopReturned /\ ~ws_running)
    /\ [](ws_server = "closed" => ws_consumer = "cancelled")
    /\ [][MonitorStopReturned => batch_no' = batch_no /\ pc' = pc /\ batch' = batch]_vars
    /\ [][ws_server' = "closed" /\ ws_server # "closed" => ws_consumer = "cancelled"]_vars

\* a stop that arrived while a batch was in the pool (the batch was left before
\* every task was collected), with the server closed at the end
C17_Witness ==
    /\ mainPc = "stopped"
    /\ ws_server = "closed"
    /\ ws_consumer = "cancelled"
    /\ loopPc = "cancelled"
    /\ batch_no >= 1
    /\ batch # {}
    /\ stats.success_count + stats.error_count < Cardinality(batch)

\* C19: in the output of compute_ut_bot_v5 no row has buy and sell both true,
\* and the first row has neither.
C19_NeverBothFirstRowClear ==
    ut.pc = "computed" =>
        /\ Len(ut.out.buy) = Len(ut.rows) /\ Len(ut.out.sell) = Len(ut.rows)
        /\ \A i \in 1..Len(ut.rows) : ~(ut.out.buy[i] /\ ut.out.sell[i])
        /\ ut.out.buy[1] = FALSE
        /\ ut.out.sell[1] = FALSE

\* an output that has a sell row and a buy row
C19_Witness ==
    /\ ut.pc = "computed"
    /\ \E i \in 1..Len(ut.rows) : ut.out.buy[i]
    /\ \E i \in 1..Len(ut.rows) : ut.out.sell[i]

\* C20: buy is true only on a row where the moving average was below the stop
\* on the row before and is above it on this row, and sell only where the stop
\* was below the moving average and is above it now; neither is true on two
\* consecutive rows.
C20_EdgeTriggered ==
    ut.pc = "computed" =>
        \A i \in 1..Len(ut.rows) :
            /\ ut.out.buy[i] =>
                 /\ i > 1
                 /\ Lt(ut.rows[i - 1].thema, ut.out.stop[i - 1])
                 /\ Gt(ut.rows[i].thema, ut.out.stop[i])
                 /\ ~ut.out.buy[i - 1]
            /\ ut.out.sell[i] =>
                 /\ i > 1
                 /\ Lt(ut.out.stop[i - 1], ut.rows[i - 1].thema)
                 /\ Gt(ut.out.stop[i], ut.rows[i].thema)
                 /\ ~ut.out.sell[i - 1]

\* a buy row followed by a row on which src and the moving average are still
\* above the stop, and which is no buy row
C20_Witness ==
    /\ ut.pc = "computed"
    /\ \E i \in 2..(Len(ut.rows) - 1) :
         /\ ut.out.buy[i]
         /\ Gt(ut.rows[i + 1].thema, ut.out.stop[i + 1])
         /\ Gt(ut.rows[i + 1].src, ut.out.stop[i + 1])
         /\ ~ut.out.buy[i + 1]

\* C21: after _cluster_levels, two candidates closer than cluster_percent are
\* in the same zone, two candidates in the same zone are linked by a chain of
\* candidates each closer than cluster_percent to the next, and the confluence
\* of a zone is the number of candidates merged into it.
Cands == {i \in 1..Len(srz.levels) : ~isnan(srz.levels[i])}
ZoneOf(i) == CHOOSE j \in 1..Len(srz.zones) : \E k \in 1..Len(srz.zones[j].methods) : srz.zones[j].methods[k] = i
NearCands(i, j) ==
    Abs(srz.levels[i].x - srz.levels[j].x) * 100 < srz.cluster_percent * srz.current_price

RECURSIVE Reach(_, _)
Reach(S, n) ==
    IF n = 0 THEN S
    ELSE Reach(S \cup {j \in Cands : \E i \in S : NearCands(i, j)}, n - 1)

C21_ClusterByDistance ==
    srz.pc = "zones" =>
        /\ \A i, j \in Cands : NearCands(i, j) => ZoneOf(i) = ZoneOf(j)
        /\ \A i, j \in Cands : ZoneOf(i) = ZoneOf(j) => j \in Reach({i}, MaxCands)
        /\ \A z \in 1..Len(srz.zones) :
             srz.zones[z].confluence = Len(srz.zones[z].methods)

\* C22: the reported list has at most top_n zones, each a clustered zone that
\* is within show_within_percent of the price with confluence of at least
\* min_confluence; it is ordered by the configured key (confluence or
\* reactions descending, distance ascending), and a passing zone is left out
\* only when the list is full of zones that rank at least as high.
PassesFilters(z) ==
    /\ Abs(z.level - srz.current_price) * 100 <= srz.within * srz.current_price
    /\ z.confluence >= srz.min_confluence
RanksAbove(a, b) ==
    CASE srz.sort_by = "Confluence" -> a.confluence > b.confluence
      [] srz.sort_by = "Reactions" -> a.reactions > b.reactions
      [] srz.sort_by = "Distance" ->
           Abs(a.level - srz.current_price) < Abs(b.level - srz.current_price)
Reported(z) == \E k \in 1..Len(srz.out) : srz.out[k] = z

C22_ReportedZones ==
    srz.pc = "reported" =>
        /\ Len(srz.out) <= srz.top_n
        /\ \A k \in 1..Len(srz.out) :
             /\ PassesFilters(srz.out[k])
             /\ \E j \in 1..Len(srz.zones) : srz.zones[j] = srz.out[k]
        /\ \A k \in 1..Len(srz.out) - 1 : ~RanksAbove(srz.out[k + 1], srz.out[k])
        /\ \A j \in 1..Len(srz.zones) :
             (PassesFilters(srz.zones[j]) /\ ~Reported(srz.zones[j])) =>
                 /\ Len(srz.out) = srz.top_n
                 /\ \A k \in 1..Len(srz.out) : ~RanksAbove(srz.zones[j], srz.out[k])

\* a passing zone is cut off by top_n after two zones that rank above it
C22_Witness ==
    /\ srz.pc = "reported"
    /\ Len(srz.out) = srz.top_n /\ srz.top_n > 1
    /\ RanksAbove(srz.out[1], srz.out[2])
    /\ \E j \in 1..Len(srz.zones) :
         /\ PassesFilters(srz.zones[j]) /\ ~Reported(srz.zones[j])
         /\ RanksAbove(srz.out[2], srz.zones[j])

\* C23: once the configuration is loaded, trigger_second is an integer in
\* 0..59 and trigger_minutes, fetch_limit, tail_calc, max_retries, retry_delay
\* and max_workers are positive integers, whatever the file held.
C23_NumericOptionsValid ==
    cl.pc = "loaded" =>
        /\ \A name \in NumericOptions :
             isinstance_int(cl.monitoring[name]) /\ cl.monitoring[name].v >= 0
        /\ cl.monitoring.trigger_second.v \in 0..(SecondsPerMinute - 1)
        /\ \A name \in NumericOptions \ {"trigger_second"} : cl.monitoring[name].v > 0

\* C24: when the indicator computation of a task has failed, the raw CSV of
\* the target and its signal state are what they were when the task started.
C24_FailureLeavesSeriesAndState ==
    tk.indicator_failed => (tk.file = tk.file0 /\ tk.state = tk.state0)

\* C26: every signal envelope put on the broadcast queue has type
\* "notification", level "WARNING", source "TradingSystem", the one-line
\* message "<icon> <BUY|SELL> SIGNAL - <EXCHANGE> <SYMBOL> (<TIMEFRAME>) @ <price>"
\* and a data object with exactly the fields exchange, symbol, timeframe,
\* price, timestamp, target_key and signal_type, the signal type being that of
\* the transition just stored.
OneLineSignalMessage(data) ==
    Icon(data.signal_type) \o " " \o data.signal_type \o " SIGNAL - "
    \o Upper(data.exchange) \o " " \o data.symbol \o " (" \o data.timeframe \o ") @ "
    \o FormatPrice(data.price)

C26_SignalEnvelopeShape ==
    \A i \in 1..Len(tk.queue) :
        LET e == tk.queue[i] IN
        e.level = "WARNING" =>
            /\ e.type = "notification"
            /\ DOMAIN e.data = {"exchange", "symbol", "timeframe", "price",
                                "timestamp", "target_key", "signal_type"}
            /\ e.data.signal_type \in {"BUY", "SELL"}
            /\ (e.data.signal_type = "BUY") <=> (tk.state = "buy")
            /\ e.source = "TradingSystem"
            /\ e.message = OneLineSignalMessage(e.data)

\* C25: with notifications and the WebSocket push configured and the server
\* running, every target whose task failed has an ERROR envelope naming its
\* exchange, symbol and timeframe on the broadcast queue.
ErrorEnvelopeFor(t) ==
    \E i \in 1..Len(message_queue) :
        /\ message_queue[i].level = "ERROR"
        /\ message_queue[i].message =
             <<"error", Target(t).exchange, Target(t).symbol, Target(t).timeframe>>

C25_FailureEmitsErrorEnvelope ==
    (config.notification_enabled /\ config.websocket_enabled /\ ws_running) =>
        \A t \in failed : ErrorEnvelopeFor(t)

\* C27 (as stated): with prev = stop[i-1], 0 before the first bar, stop[i] is
\* max(prev, src[i] - nLoss[i]) if src[i] > prev and src[i-1] > prev, otherwise
\* min(prev, src[i] + nLoss[i]) if both are below prev, otherwise
\* src[i] - nLoss[i] if src[i] > prev, otherwise src[i] + nLoss[i].
StatedRule(prev, i) ==
    LET src_i == ut.rows[i].src
        n_i   == nLoss(i, ut.warmup)
        lo    == Sub(src_i, n_i)
        hi    == Add(src_i, n_i)
    IN  IF i > 1 /\ Gt(src_i, prev) /\ Gt(ut.rows[i - 1].src, prev)
        THEN (IF isnan(lo) THEN prev ELSE IF lo.x > prev.x THEN lo ELSE prev)
        ELSE IF i > 1 /\ Lt(src_i, prev) /\ Lt(ut.rows[i - 1].src, prev)
        THEN (IF isnan(hi) THEN prev ELSE IF hi.x < prev.x THEN hi ELSE prev)
        ELSE IF Gt(src_i, prev) THEN lo
        ELSE hi

C27_StopRuleAsStated ==
    ut.pc = "computed" =>
        \A i \in 1..Len(ut.rows) :
            ut.out.stop[i] = StatedRule(IF i = 1 THEN Num(0) ELSE ut.out.stop[i - 1], i)

\* C27 (amended): the same rule with prev taken as 0 before the first bar and
\* also whenever stop[i-1] is nan (the bars of the ATR warm-up), max and min
\* keeping prev when the other operand is nan.
C27_StopRule ==
    ut.pc = "computed" =>
        \A i \in 1..Len(ut.rows) :
            ut.out.stop[i] =
                StatedRule(IF i = 1 \/ isnan(ut.out.stop[i - 1]) THEN Num(0)
                           ELSE ut.out.stop[i - 1], i)

\* a bar of the warm-up after the first: the previous stop and nLoss are nan,
\* prev is taken as 0 and max(0, nan) leaves the stop at 0
C27_Witness ==
    /\ ut.pc = "computed"
    /\ \E i \in 2..Len(ut.rows) :
         /\ isnan(ut.out.stop[i - 1])
         /\ isnan(nLoss(i, ut.warmup))
         /\ ut.out.stop[i] = Num(0)
    /\ ~isnan(ut.out.stop[Len(ut.rows)]) /\ ut.out.stop[Len(ut.rows)].x > 0

\* C28: on a bar where src[i] > stop[i-1] and src[i-1] > stop[i-1] the stop does
\* not decrease, and on a bar where both are below stop[i-1] it does not
\* increase.
C28_Ratchet ==
    ut.pc = "computed" =>
        \A i \in 2..Len(ut.rows) :
            LET prev == ut.out.stop[i - 1]
                cur  == ut.out.stop[i]
            IN  /\ (Gt(ut.rows[i].src, prev) /\ Gt(ut.rows[i - 1].src, prev)) =>
                       (~isnan(cur) /\ cur.x >= prev.x)
                /\ (Lt(ut.rows[i].src, prev) /\ Lt(ut.rows[i - 1].src, prev)) =>
                       (~isnan(cur) /\ cur.x <= prev.x)

\* the stop is held on a bar above it although src - nLoss is lower, and held
\* on a bar below it although src + nLoss is higher
C28_Witness ==
    /\ ut.pc = "computed"
    /\ \E i \in 2..Len(ut.rows) :
         LET prev == ut.out.stop[i - 1] IN
         \/ /\ Gt(ut.rows[i].src, prev) /\ Gt(ut.rows[i - 1].src, prev)
            /\ Lt(Sub(ut.rows[i].src, nLoss(i, ut.warmup)), prev)
            /\ ut.out.stop[i] = prev
         \/ /\ Lt(ut.rows[i].src, prev) /\ Lt(ut.rows[i - 1].src, prev)
            /\ Gt(Add(ut.rows[i].src, nLoss(i, ut.warmup)), prev)
            /\ ut.out.stop[i] = prev
    /\ \E i \in 2..Len(ut.rows) :
         /\ Lt(ut.rows[i].src, ut.out.stop[i - 1])
         /\ Lt(ut.rows[i - 1].src, ut.out.stop[i - 1])

\* C29: every trigger is at second trigger_second of a minute, and when the
\* batch before it took less than trigger_minutes minutes it comes exactly
\* trigger_minutes minutes after the trigger before.
C29_TriggersEveryMMinutes ==
    sch.pc = "batch" =>
        /\ sch.now % TicksPerMinute = sch.trigger_second * TicksPerSecond
        /\ sch.triggers > 1 => sch.gap = sch.m * TicksPerMinute

\* C30: messages leave the queue in the order in which they were put on it,
\* each of them once, and a subscriber that stays connected is sent a message
\* only after the messages put on the queue before it, and not twice.
Increasing(q) == \A i \in 1..(Len(q) - 1) : q[i] < q[i + 1]

C30_FifoBroadcast ==
    /\ [](Increasing(<<wsb.taken>> \o wsb.queue))
    /\ [][wsb'.taken # wsb.taken => wsb'.taken > wsb.taken]_vars
    /\ [][\A c \in 1..NClients :
            (wsb'.last[c] # wsb.last[c] /\ c \in wsb'.open) =>
                (wsb'.last[c] > wsb.last[c] /\ wsb'.last[c] = wsb.taken)]_vars

\* a subscriber that stayed connected was sent the first message, and the
\* second one, put on the queue after it, is taken off and being sent to it
C30_Witness ==
    \E c \in 1..NClients :
        /\ wsb.last[c] = 1
        /\ wsb.taken = 2 /\ wsb.cur = 2
        /\ c \in wsb.todo /\ c \in wsb.open /\ c \in wsb.stayed

\* C31: with show_psychological_levels set, every round-number level around
\* the current price is among the candidates that are clustered for the bar,
\* for a list of one or of several timeframes.
C31_PsychologicalLevelsIncluded ==
    (srz.pc = "clustered" /\ srz.show_psychological_levels) =>
        \A level \in _calculate_psychological_levels(srz.current_price, srz.within) :
            \E i \in 1..Len(srz.all_levels) :
                /\ srz.all_levels[i].level = level
                /\ srz.all_levels[i].method = "Psychological"
\* C32: when the S/R enrichment of a fired signal fails, the new state is
\* stored, detect_signal_change still returns the signal with the target, the
\* direction and the price of the transition, and the signal is emitted exactly
\* once: with notifications and the WebSocket service on, the queue holds
\* exactly one WARNING envelope, and it carries that signal.
C32_FailedEnrichmentStillEmits ==
    (tk.kind = "core" /\ tk.pc \in {"done", "failed"} /\ tk.sr = "failed") =>
        LET sd == tk.signal[1]
            signals == {i \in 1..Len(tk.queue) : tk.queue[i].level = "WARNING"}
        IN  /\ tk.state = (IF sd.signal_type = "BUY" THEN "buy" ELSE "sell")
            /\ tk.state # tk.state0
            /\ sd.target_key = _get_target_key(TaskTarget)
            /\ sd.price = tk.latest.close
            /\ sd.signal_type = (IF tk.latest.buy THEN "BUY" ELSE "SELL")
            /\ (tk.cfg.notification_enabled /\ tk.cfg.websocket_enabled) =>
                  /\ Cardinality(signals) = 1
                  /\ \A i \in signals :
                        /\ tk.queue[i].data.target_key = sd.target_key
                        /\ tk.queue[i].data.signal_type = sd.signal_type
                        /\ tk.queue[i].data.price = sd.price
\* the targets that are enabled and whose exchange is enabled and connected
Eligible == {t \in Targets : Target(t).enabled /\ Target(t).exchange \in exchanges}

\* C33: a target that is disabled, or whose exchange is disabled or not
\* connected, is never dispatched: in the initial sync and in every cycle it
\* has no task, no fetch, no fetched candles, no failure and no signal state,
\* and no queued message is about it.
C33_OnlyEligibleTargetsDispatched ==
    \A t \in Targets \ Eligible :
        /\ pc[t] = "idle"
        /\ t \notin batch
        /\ fetchRes[t] = "none"
        /\ task[t] = NoTask
        /\ t \notin failed
        /\ _get_target_key(Target(t)) \notin DOMAIN signal_states
        /\ \A i \in 1..Len(message_queue) :
              message_queue[i].data # EmptyDict =>
                  message_queue[i].data.target_key # _get_target_key(Target(t))

\* a second batch (a cycle after the initial sync) runs without the excluded
\* target while another target has stored a signal state
C33_Witness ==
    /\ Targets \ Eligible # {}
    /\ batch_no >= 2
    /\ batch # {}
    /\ signal_states # EmptyDict
    /\ \E u \in batch : pc[u] = "update"
\* C34: the SignalEvents of one target key alternate in direction: two events
\* emitted for the key with no event of the key between them are never both
\* BUY or both SELL.  The tasks of SpecRMW evaluate one key on one bar, so any
\* two of their events are neighbours in the key's sequence.
C34_EventsAlternate ==
    \A w1, w2 \in SameKeyTasks :
        (w1 # w2 /\ rmw.event[w1] # NoData /\ rmw.event[w2] # NoData) =>
            rmw.event[w1][1].signal_type # rmw.event[w2][1].signal_type
\* C35: the BatchResult of a batch that ran to completion accounts for every
\* dispatched target exactly once: success_count + error_count is the number
\* of targets of the batch, errors has error_count entries, and nothing of an
\* earlier batch is counted (while a batch collects, the counters account for
\* the tasks collected so far of this batch alone).
C35_BatchResultAccounts ==
    /\ result.valid =>
          /\ result.success_count + result.error_count = Cardinality(batch)
          /\ Len(result.errors) = result.error_count
    /\ batchPc = "collecting" =>
          /\ stats.success_count + stats.error_count
                = Cardinality({t \in batch : pc[t] = "collected"})
          /\ Len(stats.errors) = stats.error_count

\* a batch has returned its result with a success and an error
C35_Witness ==
    /\ batchPc = "idle"
    /\ result.valid
    /\ result.success_count > 0
    /\ result.error_count > 0
\* C36: a task whose fetch ended in a terminal error (every attempt failed, or
\* the exchange is not connected) has merged nothing and computed no
\* indicator: the stored series, the derived series and the signal state are
\* as before the task, and it has put no BUY or SELL signal on the queue or
\* the console.
C36_FetchFailureTouchesNothing ==
    tk.fetch \in {"terminal", "unconnected"} =>
        /\ tk.pc = "failed"
        /\ tk.file = tk.file0
        /\ tk.df_all = <<>>
        /\ ~tk.utbot_written
        /\ ~tk.indicator_failed
        /\ tk.state = tk.state0
        /\ tk.signal = NoData
        /\ \A i \in 1..Len(tk.queue) : tk.queue[i].level # "WARNING"
        /\ \A i \in 1..Len(tk.printed) : tk.printed[i] # <<"WARNING">>

\* the fetch failed on a task that had candles to merge into an existing
\* series, a stored state and a latest bar that would have fired a signal
C36_Witness ==
    /\ tk.fetch = "terminal"
    /\ tk.kind = "core"
    /\ tk.file0 # NoFile
    /\ tk.fetched # <<>>
    /\ tk.state0 = "buy"
    /\ tk.latest.sell
    /\ tk.printed # <<>>
\* C37: a lock file exists only while a call that created it is still
\* running: once every call that created the lock file has returned or
\* raised, the lock file is gone, so that no later merge on the path finds a
\* lock left behind by a finished call.
C37_NoLockLeftBehind ==
    mrg.lock => \E c \in mrg.created : mrg.pc[c] \notin {"idle", "done"}
\* every task of the batch has ended within max_retries fetch attempts and
\* 3 passes of the lock loop
TermTasksEndedInBounds ==
    \A t \in Targets :
        /\ cl.task[t].pc \in {"done", "collected"}
        /\ cl.task[t].bounded

\* C38 as stated: every dispatched batch eventually completes, each task
\* within max_retries fetch attempts and 3 lock attempts, and returns its
\* BatchResult.
C38_BatchReturnsResult ==
    (cl.pc = "collecting") ~> (cl.pc = "left" /\ cl.returned /\ TermTasksEndedInBounds)

\* C38 amended: every dispatched batch is eventually left with each of its
\* tasks ended within max_retries fetch attempts and 3 lock attempts; it
\* returns its BatchResult unless the monitor was stopped while it ran.
C38_BatchEnds ==
    (cl.pc = "collecting") ~>
        (cl.pc = "left" /\ TermTasksEndedInBounds)

\* a batch has returned after one task used every fetch attempt and another
\* every pass of the lock loop
C38_Witness ==
    /\ cl.pc = "left"
    /\ cl.returned
    /\ cl.max_retries >= 2
    /\ \E t \in Targets : cl.task[t].fetch_full
    /\ \E t \in Targets : cl.task[t].merge_full
\* C39: a task reads and changes the signal state of its own target key
\* only: the state it evaluates is the one stored under its key, and whenever
\* the state stored under a key changes, the step is the state update of a
\* task whose target has that key, so every other key keeps its state.
C39_TaskTouchesOwnKeyOnly ==
    [][/\ \A t \in Targets :
            (pc[t] = "process" /\ pc'[t] = "update") =>
                task'[t].last_state =
                    DictGet(signal_states, _get_target_key(Target(t)))
       /\ \A k \in DOMAIN signal_states \cup DOMAIN signal_states' :
            DictGet(signal_states', k) # DictGet(signal_states, k) =>
                \E t \in Targets : /\ pc[t] = "update"
                                   /\ pc'[t] # "update"
                                   /\ _get_target_key(Target(t)) = k]_vars

\* one target has a stored state while the task of another target, whose key
\* holds none, is about to store its own
C39_Witness ==
    \E t, u \in Targets :
        /\ t # u
        /\ DictGet(signal_states, _get_target_key(Target(t))) # None
        /\ DictGet(signal_states, _get_target_key(Target(u))) = None
        /\ pc[u] = "update"
        /\ task[u].new_state # None

====
